---- MODULE Spec2Model ----
(***************************************************************************)
(* Reminder scheduling and delivery engine of QuiFin                       *)
(* (lib/server/reminders.ts): the process-wide scheduler state, the        *)
(* reminder sweep (runReminderCheckInternal) with its single suspension    *)
(* point (the gateway POST), the reminder_log ledger, and the HTTP         *)
(* handlers that touch the store the sweep reads.                          *)
(*                                                                         *)
(* Granularity: JavaScript runs to completion between awaits, so one       *)
(* action is one event-loop task together with the promise reactions it    *)
(* triggers.  The only await inside a sweep is the gateway POST.           *)
(***************************************************************************)
EXTENDS Integers, Sequences, FiniteSets, TLC

\* ------------------------------------------------------------------ bounds
NSubs == 2          \* subscription ids 1..NSubs (creation order = id order)
MaxSlot == 2        \* the clock runs over slots 0..MaxSlot
MaxManual == 1      \* manual triggers that may await one sweep
MaxEnv == 1         \* store edits (PATCH, DELETE, PUT settings) per behaviour
Sat == 2            \* the gateway log counts per key saturate here
MaxRestarts == 1    \* process restarts per behaviour
MaxTopicLen == 3    \* tokens of an ntfy_topic value under resolution
MaxShift == 2       \* days added to and taken from a date, either way

\* ------------------------------------------------------- program constants
SCHEDULE_HOUR == 5
SCHEDULE_MINUTE == 30
MinDelaySlots == 1  \* Math.max(1000, ...): a timer never fires in the task that armed it

Windows == <<1, 2>>

\* Wall-clock readings at which the model observes each local day.
SlotClock == << [hour |-> 5, minute |-> 29], [hour |-> 5, minute |-> 30] >>
SlotsPerDay == Len(SlotClock)

Subs == 1..NSubs
MaxDay == MaxSlot \div SlotsPerDay
Dates == 1..(MaxDay + 1)
Offsets == {Windows[i] : i \in 1..Len(Windows)}
Keys == Subs \X Dates \X Offsets

Max(a, b) == IF a >= b THEN a ELSE b
Min(a, b) == IF a <= b THEN a ELSE b

\* ------------------------------------------------------------ time and zone
\* Civil fields of an instant (a slot) in the reminder time zone.
getDateTimeParts(instant) ==
  [day    |-> instant \div SlotsPerDay,
   hour   |-> SlotClock[(instant % SlotsPerDay) + 1].hour,
   minute |-> SlotClock[(instant % SlotsPerDay) + 1].minute]

\* An ISO date string is the record of its year, month and day fields.
\* The day count of a proleptic Gregorian date from 1970-01-01 (MakeDay).
daysFromCivil(year, month, day) ==
  LET y == IF month <= 2 THEN year - 1 ELSE year
      era == y \div 400
      yoe == y - era * 400
      mp == IF month > 2 THEN month - 3 ELSE month + 9
      doy == (153 * mp + 2) \div 5 + day - 1
      doe == yoe * 365 + yoe \div 4 - yoe \div 100 + doy
  IN  era * 146097 + doe - 719468

\* getUTCFullYear(), getUTCMonth() + 1 and getUTCDate() of a day count.
civilFromDays(z) ==
  LET shifted == z + 719468
      era == shifted \div 146097
      doe == shifted - era * 146097
      yoe == (doe - doe \div 1460 + doe \div 36524 - doe \div 146096) \div 365
      doy == doe - (365 * yoe + yoe \div 4 - yoe \div 100)
      mp == (5 * doy + 2) \div 153
      m == IF mp < 10 THEN mp + 3 ELSE mp - 9
  IN  [year  |-> yoe + era * 400 + (IF m <= 2 THEN 1 ELSE 0),
       month |-> m,
       day   |-> doy - (153 * mp + 2) \div 5 + 1]

\* Date.UTC(year, month - 1, day) in days: a year from 0 to 99 stands for
\* 1900 + year, and a day outside the month carries into the next months.
DateUTC(year, month, day) ==
  LET fullYear == IF year >= 0 /\ year <= 99 THEN 1900 + year ELSE year
  IN  daysFromCivil(fullYear, month, 1) + day - 1

\* toIsoDate pads the year to four characters: the text it makes matches
\* /^(\d{4})-(\d{2})-(\d{2})$/ exactly when the year is within 0..9999.
toIsoDate(parts) == [year |-> parts.year, month |-> parts.month, day |-> parts.day]

matchesIsoPattern(isoDate) == isoDate.year >= 0 /\ isoDate.year <= 9999

addDaysToIsoDate(isoDate, days) ==
  IF ~matchesIsoPattern(isoDate) THEN isoDate
  ELSE toIsoDate(civilFromDays(DateUTC(isoDate.year, isoDate.month,
                                       isoDate.day + days)))

\* The calendar dates of the sweep are day numbers counted from this date, so
\* that the first days of the model run over the end of a leap February.
IsoEpoch == [year |-> 2024, month |-> 2, day |-> 28]

isoOfDay(k) ==
  toIsoDate(civilFromDays(daysFromCivil(IsoEpoch.year, IsoEpoch.month, IsoEpoch.day) + k))

dayOfIso(isoDate) ==
  daysFromCivil(isoDate.year, isoDate.month, isoDate.day)
    - daysFromCivil(IsoEpoch.year, IsoEpoch.month, IsoEpoch.day)

addDaysToYmd(day, days) == day + days

getTodayIsoInReminderTimeZone(instant) == getDateTimeParts(instant).day

\* The instant at which the zone's wall clock shows hour:minute on day.
zonedDateTimeToUtcMs(day, hour, minute) ==
  (day * SlotsPerDay)
  + (CHOOSE i \in 1..SlotsPerDay :
       SlotClock[i].hour = hour /\ SlotClock[i].minute = minute) - 1

\* Faulty variant: the minute comparison is strict, so 05:30 sharp counts as
\* not yet passed.
computeNextDailyRunAtMsStrict(instant) ==
  LET localNow == getDateTimeParts(instant)
      hasPassedTodayRun ==
        \/ localNow.hour > SCHEDULE_HOUR
        \/ (localNow.hour = SCHEDULE_HOUR /\ localNow.minute > SCHEDULE_MINUTE)
      targetDate == IF hasPassedTodayRun THEN addDaysToYmd(localNow.day, 1)
                                         ELSE localNow.day
  IN  zonedDateTimeToUtcMs(targetDate, SCHEDULE_HOUR, SCHEDULE_MINUTE)

computeNextDailyRunAtMs(instant) ==
  LET localNow == getDateTimeParts(instant)
      hasPassedTodayRun ==
        \/ localNow.hour > SCHEDULE_HOUR
        \/ (localNow.hour = SCHEDULE_HOUR /\ localNow.minute >= SCHEDULE_MINUTE)
      targetDate == IF hasPassedTodayRun THEN addDaysToYmd(localNow.day, 1)
                                         ELSE localNow.day
  IN  zonedDateTimeToUtcMs(targetDate, SCHEDULE_HOUR, SCHEDULE_MINUTE)

\* --------------------------------------------------------- gateway settings
\* An ntfy_url value: whether it is blank after trim, whether new URL()
\* accepts it, and the path segments of the parsed URL (a URL is identified
\* with its parsed form; "https://host" has the one empty segment of "/").
UrlBlank   == [blank |-> TRUE,  parses |-> FALSE, path |-> <<>>]
UrlInvalid == [blank |-> FALSE, parses |-> FALSE, path |-> <<>>]
UrlHost    == [blank |-> FALSE, parses |-> TRUE,  path |-> << <<>> >>]
UrlPath    == [blank |-> FALSE, parses |-> TRUE,  path |-> << <<"alerts">> >>]
UrlSlashes == [blank |-> FALSE, parses |-> TRUE,  path |-> << <<>>, <<>> >>]

\* An ntfy_topic value is a string over these tokens: a blank, a slash, a
\* dot, a character encodeURIComponent escapes, a run of unreserved characters.
TopicTokens == {" ", "/", ".", "#", "my-topic"}

NoTopic == <<>>
MyTopic == <<"my-topic">>

\* The settings rows the model draws from: one per outcome of the resolution.
SettingsValues ==
  { [ntfyUrl |-> UrlBlank,   ntfyTopic |-> NoTopic],
    [ntfyUrl |-> UrlInvalid, ntfyTopic |-> MyTopic],
    [ntfyUrl |-> UrlHost,    ntfyTopic |-> NoTopic],
    [ntfyUrl |-> UrlHost,    ntfyTopic |-> MyTopic],
    [ntfyUrl |-> UrlPath,    ntfyTopic |-> NoTopic] }

NoConfig == [topicPath |-> <<>>, ok |-> FALSE]

RECURSIVE dropLeading(_, _)
dropLeading(str, c) ==
  IF str # <<>> /\ Head(str) = c THEN dropLeading(Tail(str), c) ELSE str

RECURSIVE dropTrailing(_, _)
dropTrailing(str, c) ==
  IF str # <<>> /\ str[Len(str)] = c
    THEN dropTrailing(SubSeq(str, 1, Len(str) - 1), c)
    ELSE str

\* Faulty variant: trimStart() instead of trim().
trimStartOnly(str) == dropLeading(str, " ")

\* String.prototype.trim
trim(str) == dropTrailing(dropLeading(str, " "), " ")

\* .replace(/^\/+|\/+$/g, "")
stripSlashes(str) == dropTrailing(dropLeading(str, "/"), "/")

\* .split("/")
RECURSIVE split(_)
split(str) ==
  IF str = <<>> THEN << <<>> >>
  ELSE IF Head(str) = "/" THEN << <<>> >> \o split(Tail(str))
  ELSE LET r == split(Tail(str))
       IN  << << Head(str) >> \o Head(r) >> \o Tail(r)

encodeURIComponent(seg) ==
  [i \in 1..Len(seg) |-> CASE seg[i] = " " -> "%20"
                            [] seg[i] = "#" -> "%23"
                            [] OTHER -> seg[i]]

\* The path state of the URL parser, which the pathname setter runs: a ".."
\* segment removes the segment before it, a "." segment is dropped, and
\* either leaves an empty segment when it is the last.
RECURSIVE parsePath(_, _)
parsePath(acc, segs) ==
  IF segs = <<>> THEN acc
  ELSE LET seg == Head(segs)
           closing == IF Len(segs) = 1 THEN << <<>> >> ELSE <<>>
       IN  IF seg = << ".", "." >>
             THEN parsePath(SubSeq(acc, 1, Len(acc) - 1) \o closing, Tail(segs))
           ELSE IF seg = << "." >>
             THEN parsePath(acc \o closing, Tail(segs))
           ELSE parsePath(Append(acc, seg), Tail(segs))

\* parsedUrl.pathname = `/${...}`
setPathname(segs) == IF segs = <<>> THEN << <<>> >> ELSE parsePath(<<>>, segs)

\* trimmedTopic.split("/").filter(Boolean).map(encodeURIComponent)
topicSegments(trimmedTopic) ==
  LET kept == SelectSeq(split(trimmedTopic), LAMBDA seg : seg # <<>>)
  IN  [i \in 1..Len(kept) |-> encodeURIComponent(kept[i])]

\* Faulty variant: the check for a missing topic is left out.
resolveNtfySettingsNoTopicCheck(s) ==
  LET trimmedTopic == stripSlashes(trim(s.ntfyTopic)) IN
  IF s.ntfyUrl.blank
    THEN [config |-> NoConfig, warning |-> "missing"]
  ELSE IF ~s.ntfyUrl.parses
    THEN [config |-> NoConfig, warning |-> "invalid"]
  ELSE [config  |-> [topicPath |-> IF trimmedTopic # <<>>
                                     THEN setPathname(topicSegments(trimmedTopic))
                                     ELSE s.ntfyUrl.path,
                     ok |-> TRUE],
        warning |-> "none"]

resolveNtfySettings(s) ==
  LET trimmedTopic == stripSlashes(trim(s.ntfyTopic))
      hasTopicInUrl == \E i \in 1..Len(s.ntfyUrl.path) : s.ntfyUrl.path[i] # <<>>
  IN  IF s.ntfyUrl.blank
        THEN [config |-> NoConfig, warning |-> "missing"]
      ELSE IF ~s.ntfyUrl.parses
        THEN [config |-> NoConfig, warning |-> "invalid"]
      ELSE IF trimmedTopic = <<>> /\ ~hasTopicInUrl
        THEN [config |-> NoConfig, warning |-> "incomplete"]
      ELSE [config  |-> [topicPath |-> IF trimmedTopic # <<>>
                                         THEN setPathname(topicSegments(trimmedTopic))
                                         ELSE s.ntfyUrl.path,
                         ok |-> TRUE],
            warning |-> "none"]

\* -------------------------------------------------------------------- state
VARIABLES
  procs,       \* the server processes that share the SQLite store
  production,  \* process.env.NODE_ENV = "production"
  now,         \* the clock (a slot)
  subs,        \* table subscriptions
  settings,    \* table settings (ntfy_url, ntfy_topic)
  ledger,      \* table reminder_log: the set of keys <<subscription, date, offset>>
  sched,       \* globalThis.__quifinReminderScheduler of each process
  liveTimers,  \* pending setTimeout handles of each process
  sweep,       \* the runReminderCheckInternal activation of each process
  running,     \* unsettled runReminderCheckInternal activations of each process
  awaiting,    \* callers awaiting the in-flight promise of each process
  lastRun,     \* observer: the most recently settled sweep of each process
  gateway,     \* observer: notifications the gateway accepted, per key
  budget,      \* observer: store edits and restarts left
  fx,          \* table fx_rates: rate_to_eur of the foreign currency in use
  test,        \* the sendTestNotification activation of each process
  reply,       \* observer: the last reply of the run and test routes
  calc         \* observer: argument and result of a function under evaluation

vars == << procs, production, now, subs, settings, ledger, sched, liveTimers,
           sweep, running, awaiting, lastRun, gateway, budget,
           fx, test, reply, calc >>

NoSub == [exists |-> FALSE, date |-> 1, remind |-> FALSE, archived |-> FALSE]

InitScheduler == [started |-> FALSE, timer |-> "null", timerAt |-> 0, inFlight |-> FALSE]

NoWaiters == [timer |-> 0, startup |-> 0, manual |-> 0]

IdleSweep ==
  [pc |-> "idle", resp |-> "none", today |-> 0, config |-> NoConfig, widx |-> 0,
   cur |-> 0, curDate |-> 0, rest |-> <<>>,
   candidatesChecked |-> 0, sentCount |-> 0, skippedCount |-> 0, failedCount |-> 0,
   warnings |-> 0, configWarnings |-> 0,
   queried |-> 0, posted |-> <<>>, prev |-> -1, quiet |-> TRUE, fault |-> FALSE,
   fxRates |-> 0, target |-> <<>>, bodyFx |-> 0]

\* No sendTestNotification call is suspended.
IdleTest == [pc |-> "idle", target |-> <<>>]

NoReply == [route |-> "none", status |-> 0, targetUrl |-> <<>>, error |-> "none"]

NoCalc == [fn |-> "none"]

NoRun ==
  [outcome |-> "none", today |-> 0, hasConfig |-> FALSE,
   candidatesChecked |-> 0, sentCount |-> 0, skippedCount |-> 0, failedCount |-> 0,
   warnings |-> 0, windowsChecked |-> 0, configWarnings |-> 0,
   queried |-> 0, posted |-> <<>>, prev |-> -1, quiet |-> FALSE, fault |-> FALSE,
   waiters |-> NoWaiters, rearmed |-> FALSE]


\* ------------------------------------------------------- the store's queries
\* SELECT ... WHERE archived = 0 AND remind_cancel = 1 AND next_charge_date = ?
\* ORDER BY next_charge_date, created_at: rows in creation order.
\* Faulty variant: the WHERE clause has no archived = 0.
RECURSIVE selectFromWithArchived(_, _)
selectFromWithArchived(targetChargeDate, s) ==
  IF s > NSubs THEN <<>>
  ELSE (IF /\ subs[s].exists
           /\ subs[s].remind
           /\ subs[s].date = targetChargeDate
          THEN << [id |-> s, next_charge_date |-> subs[s].date] >>
          ELSE <<>>)
       \o selectFromWithArchived(targetChargeDate, s + 1)

\* Faulty variant: the WHERE clause has no next_charge_date = ?.
RECURSIVE selectFromAnyDate(_, _)
selectFromAnyDate(targetChargeDate, s) ==
  IF s > NSubs THEN <<>>
  ELSE (IF /\ subs[s].exists
           /\ ~subs[s].archived
           /\ subs[s].remind
          THEN << [id |-> s, next_charge_date |-> subs[s].date] >>
          ELSE <<>>)
       \o selectFromAnyDate(targetChargeDate, s + 1)

RECURSIVE selectFrom(_, _)
selectFrom(targetChargeDate, s) ==
  IF s > NSubs THEN <<>>
  ELSE (IF /\ subs[s].exists
           /\ ~subs[s].archived
           /\ subs[s].remind
           /\ subs[s].date = targetChargeDate
          THEN << [id |-> s, next_charge_date |-> subs[s].date] >>
          ELSE <<>>)
       \o selectFrom(targetChargeDate, s + 1)

selectSubscriptionsByDate(targetChargeDate) == selectFrom(targetChargeDate, 1)

\* Faulty variant: the lookup forgets the offset_days column.
hasReminderLogAnyOffset(rows, key) ==
  \E k \in rows : k[1] = key[1] /\ k[2] = key[2]

\* Faulty variant: the insert reports success without writing the row.
insertReminderLogLost(rows, key) == [ok |-> TRUE, rows |-> rows]

\* SELECT 1 FROM reminder_log WHERE subscription_id = ? AND ... LIMIT 1
hasReminderLog(rows, key) == key \in rows

\* INSERT INTO reminder_log: the unique index rejects a duplicate key and the
\* foreign key rejects a subscription that no longer exists.
insertReminderLog(rows, key) ==
  IF key \in rows \/ ~subs[key[1]].exists
    THEN [ok |-> FALSE, rows |-> rows]
    ELSE [ok |-> TRUE,  rows |-> rows \cup {key}]

\* ------------------------------------------------- one process, as a value
\* The part of the state one event-loop task of process p reads and writes.
Bundle(p) ==
  [sched |-> sched[p], timers |-> liveTimers[p], sweep |-> sweep[p],
   running |-> running[p], awaiting |-> awaiting[p], lastRun |-> lastRun[p],
   ledger |-> ledger]

\* ---------------------------------------------------------------- scheduler
\* Faulty variant: a handle already held, live or fired, is taken for an armed
\* timer and nothing is scheduled.
scheduleNextDailyReminderRunIfUnset(b) ==
  LET nextRunAtMs == computeNextDailyRunAtMs(now)
      delayMs == Max(MinDelaySlots, nextRunAtMs - now)
  IN  IF b.sched.timer # "null"
        THEN b
        ELSE [b EXCEPT !.sched.timer = "armed",
                       !.sched.timerAt = now + delayMs,
                       !.timers = @ + 1]

scheduleNextDailyReminderRun(b) ==
  LET cleared == IF b.sched.timer = "armed" THEN b.timers - 1 ELSE b.timers
      nextRunAtMs == computeNextDailyRunAtMs(now)
      delayMs == Max(MinDelaySlots, nextRunAtMs - now)
  IN  [b EXCEPT !.sched.timer = "armed",
                !.sched.timerAt = now + delayMs,
                !.timers = cleared + 1]

\* Faulty variant: the re-arm is chained with then() and is skipped by a rejection.
onTimerRunSettledThen(b, outcome) ==
  IF outcome = "returned" THEN scheduleNextDailyReminderRun(b) ELSE b

\* .catch(...).finally(() => scheduleNextDailyReminderRun()) of the timer callback
onTimerRunSettled(b, outcome) == scheduleNextDailyReminderRun(b)

\* Faulty variant: the reference is cleared with then(), on fulfilment only.
clearInFlightOnSuccess(b, outcome) ==
  IF outcome = "returned" THEN [b EXCEPT !.sched.inFlight = FALSE] ELSE b

\* .finally(() => { schedulerState.inFlight = null }) of runReminderCheck
clearInFlight(b, outcome) == [b EXCEPT !.sched.inFlight = FALSE]

\* The in-flight promise settles: every caller awaiting it gets this outcome.
settle(b, outcome) ==
  LET st == b.sweep
      run == IF outcome = "returned"
               THEN [outcome |-> "returned", today |-> st.today,
                     hasConfig |-> st.config.ok,
                     candidatesChecked |-> st.candidatesChecked,
                     sentCount |-> st.sentCount, skippedCount |-> st.skippedCount,
                     failedCount |-> st.failedCount, warnings |-> st.warnings,
                     windowsChecked |-> Len(Windows),
                     configWarnings |-> st.configWarnings,
                     queried |-> st.queried, posted |-> st.posted,
                     prev |-> st.prev, quiet |-> st.quiet, fault |-> st.fault,
                     waiters |-> b.awaiting, rearmed |-> FALSE]
               ELSE [NoRun EXCEPT !.outcome = "threw", !.today = st.today,
                                  !.fault = st.fault, !.waiters = b.awaiting]
      b1 == clearInFlight([b EXCEPT !.sweep = IdleSweep,
                                    !.running = @ - 1,
                                    !.awaiting = NoWaiters,
                                    !.lastRun = run], outcome)
      b2 == IF b.awaiting.timer > 0 THEN onTimerRunSettled(b1, outcome) ELSE b1
  IN  [b2 EXCEPT !.lastRun.rearmed = (b2.sched.timer = "armed" /\ b.awaiting.timer > 0)]

\* -------------------------------------------------------------- the sweep
\* Faulty variant: the catch block leaves the candidate loop.
onDeliveryFailureBreak(b) ==
  [b EXCEPT !.sweep.failedCount = @ + 1, !.sweep.warnings = @ + 1,
            !.sweep.rest = <<>>]

\* catch (error) { failedCount += 1; warnings.push(...) }
onDeliveryFailure(b) ==
  [b EXCEPT !.sweep.failedCount = @ + 1, !.sweep.warnings = @ + 1]

\* Faulty variant: settings and FX rates are read again for every candidate.
beginPostRereading(b, candidate, key) ==
  [b EXCEPT !.sweep.pc = "posting",
            !.sweep.resp = "none",
            !.sweep.cur = candidate.id,
            !.sweep.curDate = candidate.next_charge_date,
            !.sweep.posted = Append(@, key),
            !.sweep.target = resolveNtfySettings(settings).config.topicPath,
            !.sweep.bodyFx = fx]

\* const body = buildChargeReminderBody(candidate, offsetDays, fxRateMap);
\* try { await postNtfyNotification(ntfyConfig, REMINDER_TITLE, body); ...
beginPost(b, candidate, key) ==
  [b EXCEPT !.sweep.pc = "posting",
            !.sweep.resp = "none",
            !.sweep.cur = candidate.id,
            !.sweep.curDate = candidate.next_charge_date,
            !.sweep.posted = Append(@, key),
            !.sweep.target = b.sweep.config.topicPath,
            !.sweep.bodyFx = b.sweep.fxRates]

\* Faulty variant: a candidate skipped for lack of a target is ledgered as sent.
onNoGatewayTargetLedgered(b, key) ==
  [b EXCEPT !.sweep.skippedCount = @ + 1, !.ledger = @ \cup {key}]

\* if (!ntfyConfig) { skippedCount += 1; continue; }
onNoGatewayTarget(b, key) == [b EXCEPT !.sweep.skippedCount = @ + 1]

\* The two nested for loops of runReminderCheckInternal, from the current
\* position up to the next gateway POST (the await) or the return.
RECURSIVE runLoop(_)
runLoop(b) ==
  LET st == b.sweep IN
  IF st.rest = <<>>
    THEN IF st.widx < Len(Windows)
           THEN LET offsetDays == Windows[st.widx + 1]
                    targetChargeDate ==
                      dayOfIso(addDaysToIsoDate(isoOfDay(st.today), offsetDays))
                    candidates == selectSubscriptionsByDate(targetChargeDate)
                IN  runLoop([b EXCEPT !.sweep.widx = @ + 1,
                                      !.sweep.rest = candidates,
                                      !.sweep.queried = @ + Len(candidates)])
           ELSE settle(b, "returned")
    ELSE LET candidate == Head(st.rest)
             offsetDays == Windows[st.widx]
             key == << candidate.id, candidate.next_charge_date, offsetDays >>
             b1 == [b EXCEPT !.sweep.rest = Tail(@),
                             !.sweep.candidatesChecked = @ + 1]
         IN  IF hasReminderLog(b.ledger, key)
               THEN runLoop([b1 EXCEPT !.sweep.skippedCount = @ + 1])
             ELSE IF ~st.config.ok
               THEN runLoop(onNoGatewayTarget(b1, key))
             ELSE beginPost(b1, candidate, key)

\* Faulty variant: the warning of the resolution is logged but not kept.
runReminderCheckInternalSilent(b) ==
  LET resolved == resolveNtfySettings(settings)
  IN  runLoop([b EXCEPT !.sweep.pc = "loop",
                        !.sweep.fxRates = fx,
                        !.sweep.config = resolved.config,
                        !.sweep.warnings = 0,
                        !.sweep.configWarnings = 0,
                        !.sweep.today = getTodayIsoInReminderTimeZone(now),
                        !.sweep.widx = 0,
                        !.sweep.rest = <<>>])

\* runReminderCheckInternal from its first statement: load the FX rates,
\* snapshot the settings, resolve the gateway target, compute today, then loop.
runReminderCheckInternal(b) ==
  LET resolved == resolveNtfySettings(settings)
      w == IF resolved.warning # "none" THEN 1 ELSE 0
  IN  runLoop([b EXCEPT !.sweep.pc = "loop",
                        !.sweep.fxRates = fx,
                        !.sweep.config = resolved.config,
                        !.sweep.warnings = w,
                        !.sweep.configWarnings = w,
                        !.sweep.today = getTodayIsoInReminderTimeZone(now),
                        !.sweep.widx = 0,
                        !.sweep.rest = <<>>])

\* Faulty variant: the ledger row is written whatever the gateway answered.
afterPostInsertAlways(b) ==
  LET st == b.sweep
      key == << st.cur, st.curDate, Windows[st.widx] >>
      ins == insertReminderLog(b.ledger, key)
      b1 == [b EXCEPT !.sweep.pc = "loop", !.sweep.resp = "none",
                      !.sweep.cur = 0, !.sweep.curDate = 0,
                      !.sweep.target = <<>>, !.sweep.bodyFx = 0,
                      !.ledger = ins.rows]
  IN  IF st.resp = "ok" /\ ins.ok
        THEN [b1 EXCEPT !.sweep.sentCount = @ + 1]
        ELSE onDeliveryFailure(b1)

\* Faulty variant: a failed delivery puts the candidate back at the head of the
\* list, to be tried again by the same sweep.
afterPostRetrying(b) ==
  LET st == b.sweep
      key == << st.cur, st.curDate, Windows[st.widx] >>
      ins == insertReminderLog(b.ledger, key)
      b1 == [b EXCEPT !.sweep.pc = "loop", !.sweep.resp = "none",
                      !.sweep.cur = 0, !.sweep.curDate = 0,
                      !.sweep.target = <<>>, !.sweep.bodyFx = 0]
  IN  IF st.resp = "ok" /\ ins.ok
        THEN [b1 EXCEPT !.ledger = ins.rows, !.sweep.sentCount = @ + 1]
        ELSE [b1 EXCEPT !.sweep.rest =
                << [id |-> st.cur, next_charge_date |-> st.curDate] >> \o @]

\* The continuation of `await postNtfyNotification(...)`.
afterPost(b) ==
  LET st == b.sweep
      key == << st.cur, st.curDate, Windows[st.widx] >>
      ins == insertReminderLog(b.ledger, key)
      b1 == [b EXCEPT !.sweep.pc = "loop", !.sweep.resp = "none",
                      !.sweep.cur = 0, !.sweep.curDate = 0,
                      !.sweep.target = <<>>, !.sweep.bodyFx = 0]
  IN  IF st.resp = "ok" /\ ins.ok
        THEN [b1 EXCEPT !.ledger = ins.rows, !.sweep.sentCount = @ + 1]
        ELSE onDeliveryFailure(b1)

\* ---------------------------------------------------------- runReminderCheck
join(b, caller) == [b EXCEPT !.awaiting[caller] = @ + 1]

\* The call runReminderCheckInternal(now): a new activation.  Its synchronous
\* part is run by drain, after the calls of the same task have been made.
beginSweep(b) ==
  LET prev == IF b.lastRun.outcome = "returned" /\ b.lastRun.quiet
                THEN b.lastRun.failedCount ELSE -1
  IN  [b EXCEPT !.sched.inFlight = TRUE,
                !.running = @ + 1,
                !.lastRun = NoRun,
                !.sweep = [IdleSweep EXCEPT !.pc = "begin", !.prev = prev]]

\* Faulty variant: no check of schedulerState.inFlight.
runReminderCheckNoCoalesce(b, caller) == join(beginSweep(b), caller)

runReminderCheck(b, caller) ==
  IF b.sched.inFlight
    THEN join(b, caller)
    ELSE join(beginSweep(b), caller)

\* Faulty variant: every call arms a timer, and the handle held is not cleared.
ensureReminderSchedulerStartedRearm(b) ==
  LET armed == scheduleNextDailyReminderRun(b)
      kept == [armed EXCEPT !.sched.started = TRUE,
                            !.timers = b.timers + 1]
  IN  IF b.sched.started THEN kept ELSE runReminderCheck(kept, "startup")

\* Faulty variant: no check of schedulerState.started.
ensureReminderSchedulerStartedAlways(b) ==
  runReminderCheck(
    scheduleNextDailyReminderRun([b EXCEPT !.sched.started = TRUE]),
    "startup")

ensureReminderSchedulerStarted(b) ==
  IF b.sched.started
    THEN b
    ELSE runReminderCheck(
           scheduleNextDailyReminderRun([b EXCEPT !.sched.started = TRUE]),
           "startup")

\* Runs the synchronous part of a sweep begun in this task; fault is a store
\* error (a throwing db call) outside the try block of the loop.
drain(b, fault) ==
  IF b.sweep.pc = "begin"
    THEN IF fault THEN settle([b EXCEPT !.sweep.fault = TRUE], "threw")
                  ELSE runReminderCheckInternal(b)
    ELSE b

\* ------------------------------------------------------------ state updates
bump(n) == Min(Sat, n + 1)

\* A store edit (or a new local day) ends the "store unchanged" stretch of
\* every sweep in flight and of every settled sweep on record.
unquietSweep(st) == IF st.pc = "idle" THEN st ELSE [st EXCEPT !.quiet = FALSE]
unquietRun(r) == IF r.outcome = "none" THEN r ELSE [r EXCEPT !.quiet = FALSE]

Apply(p, b, edited) ==
  /\ sched' = [sched EXCEPT ![p] = b.sched]
  /\ liveTimers' = [liveTimers EXCEPT ![p] = b.timers]
  /\ running' = [running EXCEPT ![p] = b.running]
  /\ awaiting' = [awaiting EXCEPT ![p] = b.awaiting]
  /\ ledger' = b.ledger
  /\ sweep' = [q \in procs |->
                 LET st == IF q = p THEN b.sweep ELSE sweep[q]
                 IN  IF edited THEN unquietSweep(st) ELSE st]
  /\ lastRun' = [q \in procs |->
                   LET r == IF q = p THEN b.lastRun ELSE lastRun[q]
                   IN  IF edited THEN unquietRun(r) ELSE r]
  /\ gateway' = gateway

Edited ==
  /\ sweep' = [q \in procs |-> unquietSweep(sweep[q])]
  /\ lastRun' = [q \in procs |-> unquietRun(lastRun[q])]

\* ------------------------------------------------------------------ actions
\* instrumentation.ts register(), GET /api/settings, POST /api/notifications/test:
\* each calls ensureReminderSchedulerStarted().
EnsureStarted(p) ==
  \E fault \in BOOLEAN :
    LET b == ensureReminderSchedulerStarted(Bundle(p)) IN
    /\ ~sched[p].started
    /\ Apply(p, drain(b, fault), FALSE)
    /\ UNCHANGED << test, reply, fx, calc, procs, production, now, subs, settings, budget >>

\* The same call on a started scheduler.
EnsureAgain(p) ==
  /\ sched[p].started
  /\ Apply(p, drain(ensureReminderSchedulerStarted(Bundle(p)), FALSE), FALSE)
  /\ UNCHANGED << test, reply, fx, calc, procs, production, now, subs, settings, budget >>

\* POST /api/reminders/run
ManualTrigger(p) ==
  \E fault \in BOOLEAN :
    LET b == runReminderCheck(ensureReminderSchedulerStarted(Bundle(p)), "manual") IN
    /\ ~production
    /\ awaiting[p].manual < MaxManual
    /\ fault => b.sweep.pc = "begin"
    /\ Apply(p, drain(b, fault), FALSE)
    /\ UNCHANGED << test, reply, fx, calc, procs, production, now, subs, settings, budget >>

\* The setTimeout callback of scheduleNextDailyReminderRun.
TimerFire(p) ==
  \E fault \in BOOLEAN :
    LET fired == [Bundle(p) EXCEPT !.sched.timer = "fired", !.sched.timerAt = 0,
                                   !.timers = @ - 1]
        b == runReminderCheck(fired, "timer")
    IN
    /\ sched[p].timer = "armed"
    /\ now >= sched[p].timerAt
    /\ fault => b.sweep.pc = "begin"
    /\ Apply(p, drain(b, fault), FALSE)
    /\ UNCHANGED << test, reply, fx, calc, procs, production, now, subs, settings, budget >>

\* The gateway answers the POST (2xx, or non-2xx / transport error), or the
\* request hangs for good.
GatewayRespond(p) ==
  \E outcome \in {"ok", "fail", "hung"} :
    LET key == << sweep[p].cur, sweep[p].curDate, Windows[sweep[p].widx] >> IN
    /\ sweep[p].pc = "posting"
    /\ sweep[p].resp = "none"
    /\ sweep'= [sweep EXCEPT ![p].resp = outcome]
    /\ gateway' = IF outcome = "ok"
                    THEN [gateway EXCEPT ![key] = bump(@)]
                    ELSE gateway
    /\ UNCHANGED << test, reply, fx, calc, procs, production, now, subs, settings, ledger, sched,
                    liveTimers, running, awaiting, lastRun, budget >>

\* The sweep resumes after `await postNtfyNotification(...)`.
ResumeAfterPost(p) ==
  \E fault \in BOOLEAN :
    LET b == afterPost(Bundle(p)) IN
    /\ sweep[p].pc = "posting"
    /\ sweep[p].resp \in {"ok", "fail"}
    /\ fault => (b.sweep.rest # <<>> \/ b.sweep.widx < Len(Windows))
    /\ Apply(p, IF fault THEN settle([b EXCEPT !.sweep.fault = TRUE], "threw")
                         ELSE runLoop(b), FALSE)
    /\ UNCHANGED << test, reply, fx, calc, procs, production, now, subs, settings, budget >>

\* The process is killed and started again: its memory is lost, the store stays.
Restart(p) ==
  /\ budget.restarts > 0
  /\ budget' = [budget EXCEPT !.restarts = @ - 1]
  /\ sched' = [sched EXCEPT ![p] = InitScheduler]
  /\ liveTimers' = [liveTimers EXCEPT ![p] = 0]
  /\ sweep' = [sweep EXCEPT ![p] = IdleSweep]
  /\ running' = [running EXCEPT ![p] = 0]
  /\ awaiting' = [awaiting EXCEPT ![p] = NoWaiters]
  /\ lastRun' = [lastRun EXCEPT ![p] = NoRun]
  /\ test' = [test EXCEPT ![p] = IdleTest]
  /\ UNCHANGED << reply, fx, calc, procs, production, now, subs, settings, ledger, gateway >>

\* The rows a PATCH of one validated field (next_charge_date, remind_cancel or
\* archived) can turn a row into.
PatchedRows(row) ==
  {[row EXCEPT !.date = d] : d \in Dates}
  \cup {[row EXCEPT !.remind = ~@], [row EXCEPT !.archived = ~@]}

\* PATCH /api/subscriptions/[id]
PatchSubscription(s) ==
  \E row \in PatchedRows(subs[s]) :
    /\ budget.env > 0
    /\ subs[s].exists
    /\ row # subs[s]
    /\ subs' = [subs EXCEPT ![s] = row]
    /\ budget' = [budget EXCEPT !.env = @ - 1]
    /\ Edited
    /\ UNCHANGED << test, reply, fx, calc, procs, production, now, settings, ledger, sched, liveTimers,
                    running, awaiting, gateway >>

\* DELETE /api/subscriptions/[id]: reminder_log rows go with it (ON DELETE CASCADE).
DeleteSubscription(s) ==
  /\ budget.env > 0
  /\ subs[s].exists
  /\ subs' = [subs EXCEPT ![s] = NoSub]
  /\ ledger' = {k \in ledger : k[1] # s}
  /\ budget' = [budget EXCEPT !.env = @ - 1]
  /\ Edited
  /\ UNCHANGED << test, reply, fx, calc, procs, production, now, settings, sched, liveTimers,
                  running, awaiting, gateway >>

\* PUT /api/settings: ensureReminderSchedulerStarted(), then the write.
PutSettings(p) ==
  \E v \in SettingsValues :
    /\ budget.env > 0
    /\ v # settings
    /\ settings' = v
    /\ budget' = [budget EXCEPT !.env = @ - 1]
    /\ Apply(p, drain(ensureReminderSchedulerStarted(Bundle(p)), FALSE), TRUE)
    /\ UNCHANGED << test, reply, fx, calc, procs, production, now, subs >>

\* Time passes.
Tick ==
  /\ now < MaxSlot
  /\ now' = now + 1
  /\ IF getDateTimeParts(now + 1).day # getDateTimeParts(now).day
       THEN Edited
       ELSE UNCHANGED << sweep, lastRun >>
  /\ UNCHANGED << test, reply, fx, calc, procs, production, subs, settings, ledger, sched, liveTimers,
                  running, awaiting, gateway, budget >>

\* ------------------------------------------------- the run and test routes
\* The request body of POST /api/notifications/test: empty (the stored
\* settings are used) or an object whose fields replace them.
NoOverride == [given |-> FALSE, value |-> [ntfyUrl |-> UrlBlank, ntfyTopic |-> NoTopic]]
Overrides == {NoOverride} \cup {[given |-> TRUE, value |-> v] : v \in SettingsValues}

\* Faulty variant: a configuration error is downgraded to a warning, as the
\* sweep does, and the call returns.
sendTestNotificationLenient(override) ==
  LET s == IF override.given THEN override.value ELSE settings
      resolved == resolveNtfySettings(s)
  IN  IF ~resolved.config.ok \/ resolved.warning # "none"
        THEN [test |-> IdleTest, threw |-> FALSE, error |-> resolved.warning]
        ELSE [test  |-> [pc |-> "posting", target |-> resolved.config.topicPath],
              threw |-> FALSE, error |-> "none"]

\* sendTestNotification up to its await: the settings of the override or of
\* the store, the resolution, the throw on a configuration error, the POST.
sendTestNotification(override) ==
  LET s == IF override.given THEN override.value ELSE settings
      resolved == resolveNtfySettings(s)
  IN  IF ~resolved.config.ok \/ resolved.warning # "none"
        THEN [test |-> IdleTest, threw |-> TRUE, error |-> resolved.warning]
        ELSE [test  |-> [pc |-> "posting", target |-> resolved.config.topicPath],
              threw |-> FALSE, error |-> "none"]

\* POST /api/notifications/test after its ensureReminderSchedulerStarted()
\* and the read of the request body: the call of sendTestNotification.
SendTestNotification(p) ==
  \E override \in Overrides :
    LET r == sendTestNotification(override) IN
    /\ sched[p].started
    /\ test[p].pc = "idle"
    /\ test' = [test EXCEPT ![p] = r.test]
    /\ reply' = IF r.threw
                  THEN [route |-> "test", status |-> 400, targetUrl |-> <<>>,
                        error |-> r.error]
                ELSE IF r.test.pc = "idle"
                  THEN [route |-> "test", status |-> 200, targetUrl |-> r.test.target,
                        error |-> r.error]
                ELSE reply
    /\ UNCHANGED << fx, calc, procs, production, now, subs, settings, ledger,
                    sched, liveTimers, sweep, running, awaiting, lastRun,
                    gateway, budget >>

\* The gateway answers the POST of the test notification.
TestGatewayRespond(p) ==
  \E outcome \in {"ok", "fail"} :
    /\ test[p].pc = "posting"
    /\ test' = [test EXCEPT ![p] = IdleTest]
    /\ reply' = IF outcome = "ok"
                  THEN [route |-> "test", status |-> 200,
                        targetUrl |-> test[p].target, error |-> "none"]
                  ELSE [route |-> "test", status |-> 400, targetUrl |-> <<>>,
                        error |-> "delivery"]
    /\ UNCHANGED << fx, calc, procs, production, now, subs, settings, ledger,
                    sched, liveTimers, sweep, running, awaiting, lastRun,
                    gateway, budget >>

\* Faulty variant: the NODE_ENV check is missing and the trigger runs.
ManualTriggerInProductionRuns(p) ==
  LET b == runReminderCheck(ensureReminderSchedulerStarted(Bundle(p)), "manual") IN
  /\ production
  /\ awaiting[p].manual < MaxManual
  /\ Apply(p, drain(b, FALSE), FALSE)
  /\ UNCHANGED << test, reply, fx, calc, procs, production, now, subs, settings,
                  budget >>

\* POST /api/reminders/run when NODE_ENV is "production".
ManualTriggerInProduction(p) ==
  /\ production
  /\ reply' = [route |-> "run", status |-> 404, targetUrl |-> <<>>,
               error |-> "Not found."]
  /\ UNCHANGED << test, fx, calc, procs, production, now, subs, settings, ledger,
                  sched, liveTimers, sweep, running, awaiting, lastRun,
                  gateway, budget >>

\* The rates the fx_rates row of the foreign currency can hold (0: no row).
FxRates == {0, 1, 2}

\* POST /api/fx-rates (upsert) and DELETE /api/fx-rates/[currency]
PutFxRate ==
  \E r \in FxRates :
    /\ budget.env > 0
    /\ r # fx
    /\ fx' = r
    /\ budget' = [budget EXCEPT !.env = @ - 1]
    /\ UNCHANGED << test, reply, calc, procs, production, now, subs, settings,
                    ledger, sched, liveTimers, sweep, running, awaiting, lastRun,
                    gateway >>

\* ------------------------------------------------ wall clock to instant
\* Instants and wall-clock times in milliseconds.  A wall-clock time is
\* identified with Date.UTC of its fields (its reading as if it were UTC); a
\* time zone is its UTC offset before and after one transition instant.
MsPerHalfHour == 1800000

ConvergedWithinMs == 1000

MaxAttempts == 5

zoneOffsetMs(instantMs, timeZone) ==
  IF instantMs < timeZone.at THEN timeZone.before ELSE timeZone.after

\* getDateTimeParts(new Date(instantMs), timeZone), read back with Date.UTC
wallClockAsUtcMs(instantMs, timeZone) == instantMs + zoneOffsetMs(instantMs, timeZone)

getTimeZoneOffsetMs(instantMs, timeZone) ==
  wallClockAsUtcMs(instantMs, timeZone) - instantMs

Abs(x) == IF x < 0 THEN 0 - x ELSE x

\* Faulty variant: the first corrected estimate is returned without a re-check.
zonedDateTimeToUtcMsSinglePass(c) ==
  LET offsetMs == getTimeZoneOffsetMs(c.guess, c.timeZone)
      corrected == c.target - offsetMs
  IN  [c EXCEPT !.attempt = @ + 1, !.guess = corrected, !.done = TRUE,
                !.result = corrected]

\* One pass of the for loop of zonedDateTimeToUtcMs, and the return after
\* the last pass.
zonedDateTimeToUtcMsAttempt(c) ==
  LET offsetMs == getTimeZoneOffsetMs(c.guess, c.timeZone)
      corrected == c.target - offsetMs
  IN  IF Abs(corrected - c.guess) < ConvergedWithinMs
        THEN [c EXCEPT !.attempt = @ + 1, !.done = TRUE, !.result = corrected]
      ELSE IF c.attempt + 1 < MaxAttempts
        THEN [c EXCEPT !.attempt = @ + 1, !.guess = corrected]
        ELSE [c EXCEPT !.attempt = @ + 1, !.guess = corrected, !.done = TRUE,
                       !.result = corrected]

\* The zones of the model: UTC offsets of real zones (in half hours), a
\* transition of half an hour or one hour either way or none, at some hour
\* of the second day; the wall-clock times asked for are the half hours of
\* the first three days.
ZoneOffsets == {0 - 16, 0 - 10, 0, 2, 11, 21}

ZoneShifts == {0 - 2, 0 - 1, 0, 1, 2}

TransitionHours == {1, 2, 9, 10, 15}

TimeZones ==
  {[before |-> o * MsPerHalfHour, after |-> (o + d) * MsPerHalfHour,
    at |-> (48 + 2 * h) * MsPerHalfHour] :
     o \in ZoneOffsets, d \in ZoneShifts, h \in TransitionHours}

WallClockTimes == {k * MsPerHalfHour : k \in 24..120}

ProbeOffset ==
  /\ calc.fn = "zoned"
  /\ ~calc.done
  /\ calc' = zonedDateTimeToUtcMsAttempt(calc)
  /\ UNCHANGED << test, reply, fx, procs, production, now, subs, settings, ledger,
                  sched, liveTimers, sweep, running, awaiting, lastRun, gateway,
                  budget >>

\* ------------------------------------------------------- the reminder body
\* A JavaScript number that is an amount of money, a quotient or a product of
\* such: an exact fraction n/d of cents (binary rounding errors are left out;
\* they are far below a cent and can only decide which way a value half-way
\* between two cents is rounded).  A rate is undefined (no key in the map), Infinity, or a number
\* of hundredths.
Fraction(n, d) == [n |-> n, d |-> d]

NoRate == [kind |-> "undefined", hundredths |-> 0]

\* String.prototype.toUpperCase on the currency texts of the model.
toUpperCase(str) ==
  CASE str = "usd" -> "USD"
    [] str = "eur" -> "EUR"
    [] OTHER -> str

CurrencyCodes == {"EUR", "USD", "JPY"}

\* rows.reduce((acc, row) => { acc[row.currency.toUpperCase()] = Number(row.rate_to_eur) })
loadFxRateMap(rows) ==
  [code \in CurrencyCodes |->
     IF \E row \in rows : toUpperCase(row.currency) = code
       THEN (CHOOSE row \in rows : toUpperCase(row.currency) = code).rate_to_eur
       ELSE NoRate]

\* Intl.NumberFormat with two fraction digits: the value in cents, half up.
formatAmount(value) == (2 * value.n + value.d) \div (2 * value.d)

formatEur(value) == (2 * value.n + value.d) \div (2 * value.d)

\* Faulty variant: any rate found in the map is used.
hasUsableRateAnyNumber(fxRate) == fxRate.kind # "undefined"

\* Number.isFinite(fxRate) && fxRate > 0
hasUsableRate(fxRate) == fxRate.kind = "number" /\ fxRate.hundredths > 0

\* Faulty variant: the annualized figure is the monthly figure.
originalAnnualizedUnscaled(originalMonthly) == originalMonthly

\* const originalAnnualized = originalMonthly * 12;
originalAnnualizedOf(originalMonthly) ==
  Fraction(originalMonthly.n * 12, originalMonthly.d)

\* value * fxRate (Infinity for an infinite rate)
timesRate(value, fxRate) ==
  IF fxRate.kind = "Infinity"
    THEN [shown |-> "Infinity", cents |-> 0]
    ELSE [shown |-> "amount",
          cents |-> formatEur(Fraction(value.n * fxRate.hundredths, value.d * 100))]

\* The lines of the body that carry amounts (the due phrase, the name and the
\* cancel URL carry none): the original amount, the monthly line and the
\* annualized line, each with its EUR figure and, for a foreign currency, the
\* figure in the original currency; lookup is the key read in fxRates.
buildChargeReminderBody(subscription, offsetDays, fxRates) ==
  LET cadenceMonths == Max(1, subscription.cadence_months)
      originalMonthly == Fraction(subscription.amount, cadenceMonths)
      originalAnnualized == originalAnnualizedOf(originalMonthly)
      currency == toUpperCase(subscription.currency)
      duePhrase == IF offsetDays = 1 THEN "due tomorrow" ELSE "due in 2 days"
      original == [cents |-> formatAmount(Fraction(subscription.amount, 1)),
                   currency |-> currency]
      none == [shown |-> "none", cents |-> 0, currency |-> "none"]
  IN  IF currency = "EUR"
        THEN [duePhrase |-> duePhrase, original |-> original, lookup |-> "none",
              monthlyEur |-> [shown |-> "amount", cents |-> formatEur(originalMonthly)],
              monthlyOriginal |-> none,
              annualizedEur |-> [shown |-> "amount", cents |-> formatEur(originalAnnualized)],
              annualizedOriginal |-> none]
        ELSE LET fxRate == fxRates[currency]
                 monthly == [shown |-> "amount", cents |-> formatAmount(originalMonthly),
                             currency |-> currency]
                 annualized == [shown |-> "amount",
                                cents |-> formatAmount(originalAnnualized),
                                currency |-> currency]
             IN  IF hasUsableRate(fxRate)
                   THEN [duePhrase |-> duePhrase, original |-> original,
                         lookup |-> currency,
                         monthlyEur |-> timesRate(originalMonthly, fxRate),
                         monthlyOriginal |-> monthly,
                         annualizedEur |-> timesRate(originalAnnualized, fxRate),
                         annualizedOriginal |-> annualized]
                   ELSE [duePhrase |-> duePhrase, original |-> original,
                         lookup |-> currency,
                         monthlyEur |-> [shown |-> "n/a", cents |-> 0],
                         monthlyOriginal |-> monthly,
                         annualizedEur |-> [shown |-> "n/a", cents |-> 0],
                         annualizedOriginal |-> annualized]

\* The subscriptions and fx_rates tables a body is built from: amounts in
\* cents, cadences validated as positive integers, at most one fx_rates row
\* per currency, with a positive rate (the CHECK of the table) that may be
\* too large for a finite number.
BodyAmounts == {999, 1000, 12000}

BodyCadences == {1, 3, 12}

BodySubscriptions ==
  [currency : {"EUR", "eur", "USD", "usd", "JPY"}, amount : BodyAmounts,
   cadence_months : BodyCadences]

UsdRates ==
  {[kind |-> "number", hundredths |-> 92], [kind |-> "number", hundredths |-> 150],
   [kind |-> "Infinity", hundredths |-> 0]}

FxRows ==
  {usd \cup eur : usd \in {{}} \cup {{[currency |-> c, rate_to_eur |-> r]} :
                                        c \in {"USD", "usd"}, r \in UsdRates},
                  eur \in {{}, {[currency |-> "EUR",
                                 rate_to_eur |-> [kind |-> "number", hundredths |-> 150]]}}}

BuildBody ==
  /\ calc.fn = "body"
  /\ calc.step = 0
  /\ calc' = [calc EXCEPT
                !.body = buildChargeReminderBody(calc.subscription, calc.offsetDays,
                                                 loadFxRateMap(calc.rows)),
                !.step = 1]
  /\ UNCHANGED << test, reply, fx, procs, production, now, subs, settings, ledger,
                  sched, liveTimers, sweep, running, awaiting, lastRun, gateway,
                  budget >>

\* ------------------------------------------------------------ specification
\* The settings found at boot: no gateway configured yet, or a complete one.
InitialSettings ==
  { [ntfyUrl |-> UrlBlank, ntfyTopic |-> NoTopic],
    [ntfyUrl |-> UrlHost,  ntfyTopic |-> MyTopic] }

InitStore ==
  /\ production = FALSE
  /\ now = 0
  /\ subs \in [Subs -> [exists : {TRUE}, date : Dates, remind : {TRUE},
                        archived : {FALSE}]]
  /\ settings \in InitialSettings
  /\ ledger = {}
  /\ gateway = [k \in Keys |-> 0]
  /\ fx = 1
  /\ reply = NoReply

InitProcs(ps) ==
  /\ procs = ps
  /\ sched = [p \in ps |-> InitScheduler]
  /\ liveTimers = [p \in ps |-> 0]
  /\ sweep = [p \in ps |-> IdleSweep]
  /\ running = [p \in ps |-> 0]
  /\ awaiting = [p \in ps |-> NoWaiters]
  /\ lastRun = [p \in ps |-> NoRun]
  /\ test = [p \in ps |-> IdleTest]

Init ==
  /\ InitStore
  /\ InitProcs({1})
  /\ budget = [env |-> MaxEnv, restarts |-> MaxRestarts]
  /\ calc = NoCalc

Next ==
  \/ \E p \in procs : EnsureStarted(p)
  \/ \E p \in procs : EnsureAgain(p)
  \/ \E p \in procs : ManualTrigger(p)
  \/ \E p \in procs : TimerFire(p)
  \/ \E p \in procs : GatewayRespond(p)
  \/ \E p \in procs : ResumeAfterPost(p)
  \/ \E p \in procs : Restart(p)
  \/ \E s \in Subs : PatchSubscription(s)
  \/ \E s \in Subs : DeleteSubscription(s)
  \/ \E p \in procs : PutSettings(p)
  \/ Tick

Spec == Init /\ [][Next]_vars

\* Two server processes on one store file, a fixed store, no edits.
InitShared ==
  /\ production = FALSE
  /\ now = 0
  /\ subs = [s \in Subs |-> [exists |-> TRUE, date |-> 1, remind |-> TRUE,
                             archived |-> FALSE]]
  /\ settings = [ntfyUrl |-> UrlHost, ntfyTopic |-> MyTopic]
  /\ ledger = {}
  /\ gateway = [k \in Keys |-> 0]
  /\ fx = 1
  /\ reply = NoReply
  /\ calc = NoCalc
  /\ InitProcs({1, 2})
  /\ budget = [env |-> 0, restarts |-> 0]

NextShared ==
  \/ \E p \in procs : EnsureStarted(p)
  \/ \E p \in procs : GatewayRespond(p)
  \/ \E p \in procs : ResumeAfterPost(p)
  \/ Tick

SpecShared == InitShared /\ [][NextShared]_vars

\* The store of the route and snapshot specifications: two subscriptions due
\* tomorrow, an empty ledger.
InitFixedStore ==
  /\ now = 0
  /\ subs = [s \in Subs |-> [exists |-> TRUE, date |-> 1, remind |-> TRUE,
                             archived |-> FALSE]]
  /\ ledger = {}
  /\ gateway = [k \in Keys |-> 0]
  /\ fx = 1
  /\ reply = NoReply
  /\ calc = NoCalc
  /\ InitProcs({1})

\* The run and test routes, in a development and in a production deployment.
InitRoutes ==
  /\ InitFixedStore
  /\ production \in BOOLEAN
  /\ settings \in SettingsValues
  /\ budget = [env |-> 0, restarts |-> 0]

NextRoutes ==
  \/ \E p \in procs : EnsureStarted(p)
  \/ \E p \in procs : ManualTrigger(p)
  \/ \E p \in procs : ManualTriggerInProduction(p)
  \/ \E p \in procs : GatewayRespond(p)
  \/ \E p \in procs : ResumeAfterPost(p)
  \/ \E p \in procs : SendTestNotification(p)
  \/ \E p \in procs : TestGatewayRespond(p)

SpecRoutes == InitRoutes /\ [][NextRoutes]_vars

\* Sweeps interleaved with changes of the settings and of the FX rates.
InitSnapshot ==
  /\ InitFixedStore
  /\ production = FALSE
  /\ settings \in {[ntfyUrl |-> UrlHost, ntfyTopic |-> MyTopic],
                   [ntfyUrl |-> UrlPath, ntfyTopic |-> NoTopic]}
  /\ budget = [env |-> MaxEnv + 1, restarts |-> 0]

NextSnapshot ==
  \/ \E p \in procs : EnsureStarted(p)
  \/ \E p \in procs : ManualTrigger(p)
  \/ \E p \in procs : GatewayRespond(p)
  \/ \E p \in procs : ResumeAfterPost(p)
  \/ \E p \in procs : PutSettings(p)
  \/ PutFxRate

SpecSnapshot == InitSnapshot /\ [][NextSnapshot]_vars

\* Sweeps of one process interleaved with edits of the subscriptions, with the
\* gateway configured or not; the clock stands still.
InitEdits ==
  /\ InitStore
  /\ InitProcs({1})
  /\ budget = [env |-> MaxEnv, restarts |-> 0]
  /\ calc = NoCalc

NextEdits ==
  \/ \E p \in procs : EnsureStarted(p)
  \/ \E p \in procs : ManualTrigger(p)
  \/ \E p \in procs : GatewayRespond(p)
  \/ \E p \in procs : ResumeAfterPost(p)
  \/ \E s \in Subs : PatchSubscription(s)
  \/ \E s \in Subs : DeleteSubscription(s)

SpecEdits == InitEdits /\ [][NextEdits]_vars

\* One process over the fixed store with the clock running: starts, manual
\* triggers, timer callbacks, gateway answers and restarts.
InitClock ==
  /\ InitFixedStore
  /\ production = FALSE
  /\ settings \in InitialSettings
  /\ budget = [env |-> 0, restarts |-> MaxRestarts]

NextClock ==
  \/ \E p \in procs : EnsureStarted(p)
  \/ \E p \in procs : ManualTrigger(p)
  \/ \E p \in procs : TimerFire(p)
  \/ \E p \in procs : GatewayRespond(p)
  \/ \E p \in procs : ResumeAfterPost(p)
  \/ \E p \in procs : Restart(p)
  \/ Tick

SpecClock == InitClock /\ [][NextClock]_vars

\* resolveNtfySettings applied to every URL form and every topic string of up
\* to MaxTopicLen tokens.
Topics == UNION {[1..n -> TopicTokens] : n \in 0..MaxTopicLen}

ResolveInputs ==
  [ntfyUrl : {UrlBlank, UrlInvalid, UrlHost, UrlPath, UrlSlashes}, ntfyTopic : Topics]

Resolve ==
  /\ calc.fn = "none"
  /\ calc' = [fn |-> "resolve", out |-> resolveNtfySettings(settings)]
  /\ UNCHANGED << test, reply, fx, procs, production, now, subs, settings, ledger,
                  sched, liveTimers, sweep, running, awaiting, lastRun, gateway,
                  budget >>

InitResolve ==
  /\ InitFixedStore
  /\ production = FALSE
  /\ settings \in ResolveInputs
  /\ budget = [env |-> 0, restarts |-> 0]

SpecResolve == InitResolve /\ [][Resolve]_vars

\* buildChargeReminderBody applied to every subscription and fx_rates table of
\* the sets above.
InitBody ==
  /\ now = 0
  /\ subs = [s \in Subs |-> NoSub]
  /\ ledger = {}
  /\ gateway = [k \in Keys |-> 0]
  /\ fx = 1
  /\ reply = NoReply
  /\ InitProcs({1})
  /\ production = FALSE
  /\ settings = [ntfyUrl |-> UrlBlank, ntfyTopic |-> NoTopic]
  /\ budget = [env |-> 0, restarts |-> 0]
  /\ \E subscription \in BodySubscriptions : \E offsetDays \in Offsets :
     \E rows \in FxRows :
       calc = [fn |-> "body", subscription |-> subscription,
               offsetDays |-> offsetDays, rows |-> rows,
               body |-> [lookup |-> "none"], step |-> 0]

SpecBody == InitBody /\ [][BuildBody]_vars

\* zonedDateTimeToUtcMs applied to every wall-clock time and zone of the sets
\* above: const targetAsUtcMs = Date.UTC(...); let guess = targetAsUtcMs.
InitZone ==
  /\ now = 0
  /\ subs = [s \in Subs |-> NoSub]
  /\ ledger = {}
  /\ gateway = [k \in Keys |-> 0]
  /\ fx = 1
  /\ reply = NoReply
  /\ InitProcs({1})
  /\ production = FALSE
  /\ settings = [ntfyUrl |-> UrlBlank, ntfyTopic |-> NoTopic]
  /\ budget = [env |-> 0, restarts |-> 0]
  /\ \E timeZone \in TimeZones : \E targetAsUtcMs \in WallClockTimes :
       calc = [fn |-> "zoned", timeZone |-> timeZone, target |-> targetAsUtcMs,
               guess |-> targetAsUtcMs, attempt |-> 0, done |-> FALSE, result |-> 0]

SpecZone == InitZone /\ [][ProbeOffset]_vars

\* addDaysToIsoDate applied forth and back to calendar dates of these years,
\* shifted by up to MaxShift days either way.
DateYears == {0, 50, 99, 100, 1970, 2024, 9999}

IsLeapYear(year) == year % 4 = 0 /\ (year % 100 # 0 \/ year % 400 = 0)

DaysInMonth(year, month) ==
  IF month = 2 THEN (IF IsLeapYear(year) THEN 29 ELSE 28)
  ELSE IF month \in {4, 6, 9, 11} THEN 30 ELSE 31

IsoDateInputs ==
  {d \in [year : DateYears, month : 1..12, day : 1..31] :
     d.day <= DaysInMonth(d.year, d.month)}

AddDays ==
  /\ calc.fn = "addDays"
  /\ calc.step = 0
  /\ calc' = [calc EXCEPT !.mid = addDaysToIsoDate(calc.d, calc.n), !.step = 1]
  /\ UNCHANGED << test, reply, fx, procs, production, now, subs, settings, ledger,
                  sched, liveTimers, sweep, running, awaiting, lastRun, gateway,
                  budget >>

AddDaysBack ==
  /\ calc.fn = "addDays"
  /\ calc.step = 1
  /\ calc' = [calc EXCEPT !.out = addDaysToIsoDate(calc.mid, 0 - calc.n), !.step = 2]
  /\ UNCHANGED << test, reply, fx, procs, production, now, subs, settings, ledger,
                  sched, liveTimers, sweep, running, awaiting, lastRun, gateway,
                  budget >>

InitDates ==
  /\ now = 0
  /\ subs = [s \in Subs |-> NoSub]
  /\ ledger = {}
  /\ gateway = [k \in Keys |-> 0]
  /\ fx = 1
  /\ reply = NoReply
  /\ InitProcs({1})
  /\ production = FALSE
  /\ settings = [ntfyUrl |-> UrlBlank, ntfyTopic |-> NoTopic]
  /\ budget = [env |-> 0, restarts |-> 0]
  /\ \E d \in IsoDateInputs : \E n \in (0 - MaxShift)..MaxShift :
       calc = [fn |-> "addDays", d |-> d, n |-> n, mid |-> d, out |-> d, step |-> 0]

NextDates == AddDays \/ AddDaysBack

SpecDates == InitDates /\ [][NextDates]_vars

\* ------------------------------------------------------------------- claims
Range(seq) == {seq[i] : i \in 1..Len(seq)}
Occurrences(seq, x) == Cardinality({i \in 1..Len(seq) : seq[i] = x})
WaiterCount(w) == w.timer + w.startup + w.manual

\* The keys of the subscriptions a sweep on local day `today` is to remind:
\* not archived, reminders enabled, charge date today+1 or today+2.
EligibleKeys(today) ==
  {k \in Keys : /\ subs[k[1]].exists
                /\ ~subs[k[1]].archived
                /\ subs[k[1]].remind
                /\ subs[k[1]].date = k[2]
                /\ k[2] = today + k[3]}

\* C1: over any sequence of sweeps, restarts included, the gateway accepts at
\* most one notification per ledger key.
C1_AtMostOneDeliveryPerKey ==
  \A k \in Keys : gateway[k] <= 1

\* C2: at most one sweep executes at a time in a process; a runReminderCheck
\* call made while a sweep is in flight starts no second sweep, leaves the
\* sweep as it is and is settled, with every other awaiting caller, by the
\* settlement of that sweep.
C2_CoalescedCallsShareOneSweep ==
  [][\A p \in procs :
       /\ running'[p] <= 1
       /\ (sched[p].inFlight /\ WaiterCount(awaiting'[p]) > WaiterCount(awaiting[p]))
            => /\ running'[p] = running[p]
               /\ sweep'[p] = sweep[p]
               /\ sched'[p].inFlight
       /\ (sched[p].inFlight /\ ~sched'[p].inFlight /\ sched'[p].started)
            => /\ lastRun'[p].waiters = awaiting[p]
               /\ awaiting'[p] = NoWaiters
               /\ running'[p] = 0]_vars

\* C2 witness: a timer or startup call and a manual call await one sweep.
C2_Witness ==
  \E p \in procs : /\ WaiterCount(awaiting[p]) >= 2
                   /\ running[p] = 1
                   /\ sweep[p].pc = "posting"

\* C3 as stated: once a sweep has returned, every eligible subscription and
\* window has had exactly one delivery attempt (by this sweep, or by an earlier
\* one that ledgered it).
C3_ExactlyOneAttemptAlways ==
  \A p \in procs :
    (lastRun[p].outcome = "returned" /\ lastRun[p].quiet)
      => \A k \in EligibleKeys(lastRun[p].today) :
           \/ Occurrences(lastRun[p].posted, k) = 1
           \/ (k \in ledger /\ k \notin Range(lastRun[p].posted))

\* C3 amended: however many calls coalesce onto a sweep, the sweep attempts no
\* key twice and attempts eligible keys only; with a resolved gateway target
\* and an unchanged store it attempts every eligible key that is not ledgered
\* exactly once, and without a target it attempts none.
C3_OneAttemptPerSweep ==
  \A p \in procs :
    lastRun[p].outcome = "returned"
      => /\ \A k \in Range(lastRun[p].posted) : Occurrences(lastRun[p].posted, k) = 1
         /\ ~lastRun[p].hasConfig => lastRun[p].posted = <<>>
         /\ lastRun[p].quiet
              => /\ Range(lastRun[p].posted) \subseteq EligibleKeys(lastRun[p].today)
                 /\ lastRun[p].hasConfig
                      => \A k \in EligibleKeys(lastRun[p].today) :
                           k \in Range(lastRun[p].posted) \/ k \in ledger

\* C3 witness: a sweep awaited by two callers returned after attempting a key.
C3_Witness ==
  \E p \in procs : /\ lastRun[p].outcome = "returned"
                   /\ lastRun[p].quiet
                   /\ WaiterCount(lastRun[p].waiters) >= 2
                   /\ lastRun[p].posted # <<>>

\* C4 as stated: the second of two successive sweeps on one local day over an
\* unchanged store sends nothing; all its candidates are skipped, being
\* ledgered wherever a gateway target resolves.
C4_SecondSweepSendsNothing ==
  \A p \in procs :
    (lastRun[p].outcome = "returned" /\ lastRun[p].quiet /\ lastRun[p].prev >= 0)
      => /\ lastRun[p].sentCount = 0
         /\ lastRun[p].skippedCount = lastRun[p].candidatesChecked
         /\ lastRun[p].hasConfig => EligibleKeys(lastRun[p].today) \subseteq ledger

\* C4 amended: when the first sweep returned with failedCount = 0, the second
\* sweep on the same local day over the unchanged store makes no delivery
\* attempt and counts every candidate as skipped; with a resolved gateway
\* target every candidate is ledgered.
C4_SecondSweepAfterCleanSweep ==
  \A p \in procs :
    (lastRun[p].outcome = "returned" /\ lastRun[p].quiet /\ lastRun[p].prev = 0)
      => /\ lastRun[p].sentCount = 0
         /\ lastRun[p].failedCount = 0
         /\ lastRun[p].posted = <<>>
         /\ lastRun[p].skippedCount = lastRun[p].candidatesChecked
         /\ lastRun[p].hasConfig => EligibleKeys(lastRun[p].today) \subseteq ledger

\* C4 witness: a second sweep returned after a clean first one, having found
\* ledgered candidates.
C4_Witness ==
  \E p \in procs : /\ lastRun[p].outcome = "returned"
                   /\ lastRun[p].quiet
                   /\ lastRun[p].prev = 0
                   /\ lastRun[p].hasConfig
                   /\ lastRun[p].candidatesChecked > 0

\* The ledger key of the POST process p awaits.
CurKey(p) == << sweep[p].cur, sweep[p].curDate, Windows[sweep[p].widx] >>

\* The counters of process p's sweep: of the activation, or of its result
\* once it has settled.
Counters(sw, run, p) == IF sw[p].pc = "idle" THEN run[p] ELSE sw[p]

\* C5: a sweep whose insert loses the race on a ledger key treats the conflict
\* as "already sent": the candidate is not counted as failed and no warning is
\* added.
C5_DuplicateKeyIsNotAFailure ==
  [][\A p \in procs :
       (/\ sweep[p].pc = "posting"
        /\ sweep[p].resp = "ok"
        /\ CurKey(p) \in ledger
        /\ sweep'[p] # sweep[p]
        /\ lastRun'[p].outcome # "threw")
         => /\ Counters(sweep', lastRun', p).failedCount = sweep[p].failedCount
            /\ Counters(sweep', lastRun', p).warnings = sweep[p].warnings]_vars

\* C6: while a sweep is blocked for good on a gateway request, the scheduler
\* keeps a timer armed for the next run (or a timer-triggered run is under way
\* on a sweep that is not the blocked one).
C6_HungSweepKeepsSchedulerArmed ==
  \A p \in procs :
    (sched[p].started /\ sweep[p].pc = "posting" /\ sweep[p].resp = "hung")
      => \/ sched[p].timer = "armed"
         \/ (awaiting[p].timer > 0 /\ running[p] > 1)

\* C7: every sweep a timer callback awaited has, on settling, re-armed the
\* timer, whether it returned or threw: from then until the next sweep begins
\* the scheduler holds an armed timer and exactly one timer handle is live.
C7_TimerRunAlwaysRearms ==
  \A p \in procs :
    (lastRun[p].outcome # "none" /\ lastRun[p].waiters.timer > 0)
      => /\ lastRun[p].rearmed
         /\ sched[p].timer = "armed"
         /\ liveTimers[p] = 1

\* C7 witness: a sweep awaited by the timer callback threw and the timer was
\* re-armed.
C7_Witness ==
  \E p \in procs : /\ lastRun[p].outcome = "threw"
                   /\ lastRun[p].waiters.timer > 0
                   /\ lastRun[p].rearmed
                   /\ liveTimers[p] = 1

\* Whether a topic is non-empty once surrounding whitespace and then leading
\* and trailing slashes are taken off: it has a token other than a slash that
\* is not part of the surrounding whitespace.
TopicGiven(t) ==
  \E i \in 1..Len(t) :
    /\ t[i] # "/"
    /\ \/ t[i] # " "
       \/ (\E j \in 1..(i - 1) : t[j] # " ") /\ (\E k \in (i + 1)..Len(t) : t[k] # " ")

\* The settings for which the claim says resolution fails: empty or invalid
\* URL, or neither a topic nor a path in the URL.
GatewayUnresolvable(s) ==
  \/ s.ntfyUrl.blank
  \/ ~s.ntfyUrl.parses
  \/ (~TopicGiven(s.ntfyTopic) /\ \A i \in 1..Len(s.ntfyUrl.path) : s.ntfyUrl.path[i] = <<>>)

\* C8: a sweep that runs with settings that do not resolve returns (only a
\* store error makes a sweep throw) with exactly one warning, no delivery
\* attempt, sentCount = 0, failedCount = 0 and every candidate skipped.
C8_UnresolvedGatewaySkipsAll ==
  \A p \in procs :
    /\ lastRun[p].outcome = "threw" => lastRun[p].fault
    /\ (lastRun[p].outcome = "returned" /\ lastRun[p].quiet
        /\ GatewayUnresolvable(settings))
         => /\ lastRun[p].warnings = 1
            /\ lastRun[p].posted = <<>>
            /\ lastRun[p].sentCount = 0
            /\ lastRun[p].failedCount = 0
            /\ lastRun[p].skippedCount = lastRun[p].candidatesChecked
            /\ lastRun[p].candidatesChecked
                 = Cardinality(EligibleKeys(lastRun[p].today))
    /\ (sweep[p].pc = "posting" /\ sweep[p].quiet) => ~GatewayUnresolvable(settings)

\* C8 witness: a sweep returned over unresolvable settings with candidates.
C8_Witness ==
  \E p \in procs : /\ lastRun[p].outcome = "returned"
                   /\ lastRun[p].quiet
                   /\ GatewayUnresolvable(settings)
                   /\ lastRun[p].candidatesChecked = 2
                   /\ lastRun[p].skippedCount = 2

\* C9: every delivery failure adds one to failedCount and one warning and
\* does not end the sweep: a sweep that returns has examined every candidate
\* of both windows, and a sweep throws only on a store error.
C9_FailureDoesNotAbortSweep ==
  \A p \in procs :
    /\ lastRun[p].outcome = "threw" => lastRun[p].fault
    /\ lastRun[p].outcome = "returned"
         => /\ lastRun[p].candidatesChecked = lastRun[p].queried
            /\ lastRun[p].windowsChecked = Len(Windows)
            /\ lastRun[p].sentCount + lastRun[p].failedCount = Len(lastRun[p].posted)
            /\ lastRun[p].warnings = lastRun[p].failedCount + lastRun[p].configWarnings
            /\ lastRun[p].candidatesChecked
                 = lastRun[p].sentCount + lastRun[p].skippedCount + lastRun[p].failedCount

\* C9 witness: the first delivery of a sweep failed and a later candidate of
\* the same sweep was delivered and ledgered.
C9_Witness ==
  \E p \in procs : /\ lastRun[p].outcome = "returned"
                   /\ lastRun[p].failedCount = 1
                   /\ lastRun[p].sentCount = 1
                   /\ Len(lastRun[p].posted) = 2
                   /\ lastRun[p].posted[1] \notin ledger
                   /\ lastRun[p].posted[2] \in ledger
                   /\ gateway[lastRun[p].posted[1]] = 0

\* C10: the first ensureReminderSchedulerStarted call marks the scheduler
\* started, arms one timer and fires the startup sweep; a call on a started
\* scheduler changes nothing, and the call a manual trigger makes on a started
\* scheduler arms no timer and fires no startup sweep.
C10_EnsureStartedIsIdempotent ==
  [][\A p \in procs :
       /\ EnsureAgain(p) => UNCHANGED vars
       /\ EnsureStarted(p)
            => /\ sched'[p].started
               /\ sched'[p].timer = "armed"
               /\ liveTimers'[p] = 1
               /\ running'[p] <= 1
               /\ awaiting'[p].startup + lastRun'[p].waiters.startup = 1
       /\ (sched[p].started /\ ManualTrigger(p))
            => /\ liveTimers'[p] <= 1
               /\ sched'[p].started
               /\ sched'[p].timer = sched[p].timer
               /\ sched'[p].timerAt = sched[p].timerAt
               /\ awaiting'[p].startup = awaiting[p].startup
               /\ lastRun'[p].waiters.startup = 0]_vars

\* C10 witness: on a started scheduler a sweep begun by a manual trigger, which
\* calls ensureReminderSchedulerStarted first, has settled with no startup
\* caller, and one timer is armed.
C10_Witness ==
  \E p \in procs : /\ sched[p].started
                   /\ lastRun[p].outcome = "returned"
                   /\ lastRun[p].waiters.manual > 0
                   /\ lastRun[p].waiters.startup = 0
                   /\ liveTimers[p] = 1

\* C11: at most one scheduler timer is live in a process, and a live timer is
\* the one whose handle the scheduler state holds.
C11_AtMostOneLiveTimer ==
  \A p \in procs :
    /\ liveTimers[p] <= 1
    /\ (liveTimers[p] = 1) <=> (sched[p].timer = "armed")

\* C11 witness: after a start, a timer fire joined by a manual trigger and the
\* completion of their sweep, one timer is live.
C11_Witness ==
  \E p \in procs : /\ lastRun[p].waiters.timer > 0
                   /\ lastRun[p].waiters.manual > 0
                   /\ sched[p].timer = "armed"
                   /\ liveTimers[p] = 1

\* Whether the wall clock of an instant reads earlier than 05:30.
BeforeScheduleTime(instant) ==
  LET c == getDateTimeParts(instant)
  IN  \/ c.hour < SCHEDULE_HOUR
      \/ (c.hour = SCHEDULE_HOUR /\ c.minute < SCHEDULE_MINUTE)

\* C12: the start of the scheduler arms the timer for the next 05:30 of the
\* zone's wall clock (today's when the clock reads earlier than 05:30,
\* tomorrow's otherwise), at least the minimum delay ahead, and begins the
\* startup sweep in the same task, with the timer still pending.
C12_StartArmsNextRunAndSweeps ==
  [][\A p \in procs :
       EnsureStarted(p)
         => LET at == sched'[p].timerAt
                c == getDateTimeParts(at)
                today == getDateTimeParts(now).day
            IN  /\ sched'[p].timer = "armed"
                /\ c.hour = SCHEDULE_HOUR
                /\ c.minute = SCHEDULE_MINUTE
                /\ c.day = IF BeforeScheduleTime(now) THEN today ELSE today + 1
                /\ at - now >= MinDelaySlots
                /\ awaiting'[p].timer = 0
                /\ lastRun'[p].waiters.timer = 0
                /\ \/ awaiting'[p].startup = 1 /\ running'[p] = 1
                   \/ lastRun'[p].waiters.startup = 1 /\ running'[p] = 0]_vars

\* C12 witness: the scheduler was started at 05:30 sharp; the timer is armed
\* for 05:30 of the next day and the startup sweep is at its first POST.
C12_Witness ==
  \E p \in procs : /\ sched[p].started
                   /\ ~BeforeScheduleTime(now)
                   /\ sched[p].timer = "armed"
                   /\ sched[p].timerAt = now + SlotsPerDay
                   /\ awaiting[p].startup = 1
                   /\ sweep[p].pc = "posting"

\* C13: a ledger row appears only in the continuation of a POST the gateway
\* accepted for its key, one row per step and never for a key already there
\* (the ledger is a set, as the unique index makes it); a row disappears only
\* in the step that deletes its subscription.
C13_LedgerRowsOnlyAfterDelivery ==
  [][/\ \A k \in ledger' \ ledger :
          /\ gateway[k] >= 1
          /\ \E p \in procs : /\ sweep[p].pc = "posting"
                              /\ sweep[p].resp = "ok"
                              /\ CurKey(p) = k
     /\ Cardinality(ledger' \ ledger) <= 1
     /\ \A k \in ledger \ ledger' :
          subs[k[1]].exists /\ ~subs'[k[1]].exists]_vars

\* C13 witness: two reminders were delivered and ledgered; one subscription
\* was then deleted and took its row with it, the other row stays.
C13_Witness ==
  \E k \in ledger : \E j \in Keys :
    /\ gateway[k] >= 1
    /\ gateway[j] >= 1
    /\ j \notin ledger
    /\ ~subs[j[1]].exists
    /\ budget.restarts = MaxRestarts

\* C15 as stated: every reminder a sweep sends is for a subscription that is,
\* in the store as it stands when the POST is issued, not archived,
\* reminder-enabled and due on today + offsetDays.
C15_OnlyEligibleAreEverSent ==
  [][\A p \in procs :
       Len(sweep'[p].posted) > Len(sweep[p].posted)
         => sweep'[p].posted[Len(sweep'[p].posted)] \in EligibleKeys(sweep'[p].today)]_vars

\* C15 amended: the candidates of a sweep are the rows each window's query
\* returns when it runs, window 1 before window 2; over a store that does not
\* change during the sweep they are exactly the subscriptions that are not
\* archived, reminder-enabled and due on today + 1 or today + 2, and no other
\* subscription is sent a reminder.
C15_CandidatesAreTheQueryRows ==
  \A p \in procs :
    lastRun[p].outcome = "returned"
      => /\ \A i, j \in 1..Len(lastRun[p].posted) :
              i < j => lastRun[p].posted[i][3] <= lastRun[p].posted[j][3]
         /\ lastRun[p].candidatesChecked = lastRun[p].queried
         /\ lastRun[p].quiet
              => /\ lastRun[p].queried = Cardinality(EligibleKeys(lastRun[p].today))
                 /\ Range(lastRun[p].posted) \subseteq EligibleKeys(lastRun[p].today)

\* C15 witness: a sweep over an unchanged store sent a reminder and left out
\* a subscription that is due in its windows but archived or not
\* reminder-enabled.
C15_Witness ==
  \E p \in procs : \E s \in Subs :
    /\ lastRun[p].outcome = "returned"
    /\ lastRun[p].quiet
    /\ lastRun[p].posted # <<>>
    /\ subs[s].exists
    /\ subs[s].archived \/ ~subs[s].remind
    /\ subs[s].date \in {lastRun[p].today + Windows[i] : i \in 1..Len(Windows)}

\* C14: sendTestNotification leaves the ledger, the subscriptions, the sweep
\* and the scheduler state (in-flight promise included) as they are; a
\* configuration error and a delivery error reach the caller as errors, and a
\* call that returns gives the resolved target it posted to.
C14_TestNotificationBypassesTheSweep ==
  [][\A p \in procs :
       (SendTestNotification(p) \/ TestGatewayRespond(p))
         => /\ UNCHANGED << ledger, subs, settings, sched, liveTimers, sweep,
                            running, awaiting, lastRun, gateway >>
            /\ (test[p].pc = "idle" /\ test'[p].pc = "idle")
                 => /\ reply'.status = 400
                    /\ reply'.error \in {"missing", "invalid", "incomplete"}
            /\ test'[p].pc = "posting" => test'[p].target # <<>>
            /\ (test[p].pc = "posting" /\ reply'.status = 200)
                 => reply'.targetUrl = test[p].target /\ reply'.error = "none"
            /\ reply'.route = "test"
                 => (reply'.status = 200) <=> (reply'.error = "none")]_vars

\* C14 witness: a test notification was delivered and answered with its
\* target while a sweep is suspended in its own gateway call.
C14_Witness ==
  \E p \in procs : /\ reply.route = "test"
                   /\ reply.status = 200
                   /\ reply.targetUrl # <<>>
                   /\ sweep[p].pc = "posting"
                   /\ sched[p].inFlight
                   /\ ledger = {}

\* C16: in production the run route answers 404 and changes nothing, so no
\* caller of the route ever awaits a sweep there; elsewhere it starts the
\* scheduler if need be and its caller awaits the sweep's result.
C16_RunRouteIsDevelopmentOnly ==
  [][\A p \in procs :
       /\ ManualTriggerInProduction(p)
            => /\ reply'.route = "run" /\ reply'.status = 404
               /\ UNCHANGED << sched, liveTimers, sweep, running, awaiting,
                               lastRun, ledger, gateway, test >>
       /\ production
            => awaiting'[p].manual = 0 /\ lastRun'[p].waiters.manual = 0
       /\ ManualTrigger(p)
            => /\ ~production
               /\ sched'[p].started
               /\ \/ awaiting'[p].manual = awaiting[p].manual + 1
                  \/ lastRun'[p].waiters.manual >= 1]_vars

\* C16 witness: in production the route answered 404 and the scheduler is
\* still not started.
C16_Witness ==
  \E p \in procs : /\ production
                   /\ reply.route = "run"
                   /\ reply.status = 404
                   /\ ~sched[p].started
                   /\ running[p] = 0

\* C20: a sweep reads the settings and the FX rates when it starts, from the
\* store as it is then; while it is suspended in gateway calls its snapshot
\* stays as it is whatever is written to the store, and every POST goes to
\* the snapshot's target with a body built from the snapshot's rates.
C20_SettingsAndRatesReadOncePerSweep ==
  [][\A p \in procs :
       /\ (sweep[p].pc = "idle" /\ sweep'[p].pc = "posting")
            => /\ sweep'[p].config = resolveNtfySettings(settings).config
               /\ sweep'[p].fxRates = fx
       /\ (sweep[p].pc = "posting" /\ sweep'[p].pc = "posting")
            => /\ sweep'[p].config = sweep[p].config
               /\ sweep'[p].fxRates = sweep[p].fxRates
       /\ sweep'[p].pc = "posting"
            => /\ sweep'[p].target = sweep'[p].config.topicPath
               /\ sweep'[p].bodyFx = sweep'[p].fxRates]_vars

\* C20 witness: a sweep is at its second POST, with the target and rates it
\* started with, after the settings and the rate were changed in the store.
C20_Witness ==
  \E p \in procs : /\ sweep[p].pc = "posting"
                   /\ Len(sweep[p].posted) = 2
                   /\ resolveNtfySettings(settings).config # sweep[p].config
                   /\ fx # sweep[p].fxRates
                   /\ sweep[p].bodyFx = sweep[p].fxRates
                   /\ sweep[p].target = sweep[p].config.topicPath

\* C18: the resolution succeeds exactly when the URL is non-blank, parses,
\* and the topic is given or the URL has a non-empty path segment; it fails
\* with a warning otherwise; with no topic given the target is the URL as
\* configured.
C18_ResolutionSucceedsIffTargetKnown ==
  calc.fn = "resolve"
    => LET url == settings.ntfyUrl
           out == calc.out
       IN  /\ out.config.ok
                <=> /\ ~url.blank
                    /\ url.parses
                    /\ \/ TopicGiven(settings.ntfyTopic)
                       \/ \E i \in 1..Len(url.path) : url.path[i] # <<>>
           /\ out.config.ok <=> (out.warning = "none")
           /\ (out.config.ok /\ ~TopicGiven(settings.ntfyTopic))
                => out.config.topicPath = url.path

\* C18 witness: a URL with a path and a topic of blanks and a slash resolved
\* to the URL's own path.
C18_Witness ==
  /\ calc.fn = "resolve"
  /\ settings.ntfyUrl = UrlPath
  /\ settings.ntfyTopic = << " ", "/", " " >>
  /\ calc.out.config.ok
  /\ calc.out.config.topicPath = UrlPath.path

\* C19: whenever a topic is given and the resolution succeeds, the path of
\* the target is the sequence of the topic's non-empty segments, each
\* percent-encoded, whatever path the configured URL had.
C19_TopicSegmentsBecomeThePath ==
  (calc.fn = "resolve" /\ calc.out.config.ok /\ TopicGiven(settings.ntfyTopic))
    => calc.out.config.topicPath
         = topicSegments(stripSlashes(trim(settings.ntfyTopic)))

\* C17: adding n days to a valid ISO date and then adding -n days gives the
\* date back.
C17_AddDaysRoundTrip ==
  (calc.fn = "addDays" /\ calc.step = 2) => calc.out = calc.d

\* C21: the ledger changes only in the continuation of a POST, which a sweep
\* without a gateway target never issues: such a sweep skips every candidate,
\* ledgered or not, and leaves the ledger as it is.  A sweep with a target
\* posts a key only if it is eligible and not ledgered, and when it returns
\* every eligible key is ledgered or was posted by it, none of them twice.
C21_OutageLeavesLedgerForLaterSweep ==
  [][\A p \in procs :
       /\ ledger' # ledger
            => \E q \in procs : /\ sweep[q].pc = "posting"
                                /\ sweep[q].config.ok
                                /\ ledger' = ledger \cup {CurKey(q)}
       /\ sweep'[p].pc = "posting" => sweep'[p].config.ok
       /\ (lastRun'[p].outcome = "returned" /\ ~lastRun'[p].hasConfig)
            => /\ lastRun'[p].posted = <<>>
               /\ lastRun'[p].sentCount = 0
               /\ lastRun'[p].failedCount = 0
               /\ lastRun'[p].skippedCount = lastRun'[p].candidatesChecked
               /\ lastRun'[p].candidatesChecked
                    = Cardinality(EligibleKeys(lastRun'[p].today))
       /\ Len(sweep'[p].posted) > Len(sweep[p].posted)
            => LET k == sweep'[p].posted[Len(sweep'[p].posted)]
               IN  /\ k \notin ledger'
                   /\ k \in EligibleKeys(sweep'[p].today)
                   /\ k \notin Range(sweep[p].posted)
       /\ (lastRun'[p].outcome = "returned" /\ lastRun'[p].hasConfig)
            => \A k \in EligibleKeys(lastRun'[p].today) :
                 k \in ledger' \/ k \in Range(lastRun'[p].posted)]_vars

\* C21 witness: a sweep without a target has returned, having skipped one
\* ledgered and one unledgered candidate; the ledger still holds the one row
\* and the configuration has been restored since.
C21_Witness ==
  \E p \in procs : \E k \in ledger : \E j \in EligibleKeys(lastRun[p].today) :
    /\ lastRun[p].outcome = "returned"
    /\ ~lastRun[p].hasConfig
    /\ lastRun[p].skippedCount = 2
    /\ k \in EligibleKeys(lastRun[p].today)
    /\ ledger = {k}
    /\ j \notin ledger
    /\ gateway[j] = 0
    /\ resolveNtfySettings(settings).config.ok

\* The keys a sequence of POSTs names, each once.
NoRepeats(seq) == \A i, j \in 1..Len(seq) : seq[i] = seq[j] => i = j

\* C22: a sweep posts no key twice; the continuation of a failed POST writes
\* no ledger row, counts one failure and goes on; and a sweep that follows a
\* returned sweep on the same day over the unchanged store posts as many keys
\* as that one failed to deliver.
C22_NoRetryWithinSweepRetryByNextSweep ==
  [][\A p \in procs :
       /\ NoRepeats(sweep'[p].posted)
       /\ NoRepeats(lastRun'[p].posted)
       /\ (/\ ResumeAfterPost(p)
           /\ sweep[p].resp = "fail"
           /\ lastRun'[p].outcome # "threw")
            => /\ ledger' = ledger
               /\ CurKey(p) \notin ledger'
               /\ Counters(sweep', lastRun', p).failedCount = sweep[p].failedCount + 1
               /\ Counters(sweep', lastRun', p).sentCount = sweep[p].sentCount
               /\ CurKey(p) \notin
                    {Counters(sweep', lastRun', p).posted[i] :
                       i \in (Len(sweep[p].posted) + 1)
                               ..Len(Counters(sweep', lastRun', p).posted)}
       /\ (lastRun'[p].outcome = "returned" /\ lastRun'[p].quiet
           /\ lastRun'[p].prev >= 0)
            => /\ Len(lastRun'[p].posted) = lastRun'[p].prev
               /\ Range(lastRun'[p].posted) \subseteq EligibleKeys(lastRun'[p].today)]_vars

\* C22 witness: a sweep that followed a sweep with one failed delivery, over
\* the unchanged store, has attempted that one key again and delivered it.
C22_Witness ==
  \E p \in procs : /\ lastRun[p].outcome = "returned"
                   /\ lastRun[p].quiet
                   /\ lastRun[p].prev = 1
                   /\ Len(lastRun[p].posted) = 1
                   /\ lastRun[p].sentCount = 1
                   /\ lastRun[p].posted[1] \in ledger

\* The finite positive rate the fx_rates rows hold for a currency code, in
\* hundredths, or 0 when they hold none.
RateOf(rows, code) ==
  IF \E row \in rows : /\ toUpperCase(row.currency) = code
                       /\ row.rate_to_eur.kind = "number"
                       /\ row.rate_to_eur.hundredths > 0
    THEN (CHOOSE row \in rows : toUpperCase(row.currency) = code).rate_to_eur.hundredths
    ELSE 0

\* Whether `cents` is n/d cents to the nearest whole cent (either neighbour
\* for a value half-way between two).
IsRounded(cents, n, d) ==
  /\ 2 * cents * d - d <= 2 * n
  /\ 2 * n <= 2 * cents * d + d

\* C23: for a currency other than EUR the body shows an EUR figure exactly
\* when the fx_rates rows hold a finite positive rate for the upper-cased
\* code, and "n/a" otherwise, always next to the monthly and annualized
\* figures in the original currency; for EUR the rates are not looked up.
C23_EurFigureIffUsableRate ==
  (calc.fn = "body" /\ calc.step = 1)
    => LET sub == calc.subscription
           code == toUpperCase(sub.currency)
           rate == RateOf(calc.rows, code)
           body == calc.body
       IN  IF code = "EUR"
             THEN /\ body.lookup = "none"
                  /\ body.monthlyEur.shown = "amount"
                  /\ body.annualizedEur.shown = "amount"
                  /\ body.monthlyOriginal.shown = "none"
             ELSE /\ body.lookup = code
                  /\ (body.monthlyEur.shown = "amount") <=> (rate > 0)
                  /\ (body.annualizedEur.shown = "amount") <=> (rate > 0)
                  /\ rate = 0 => /\ body.monthlyEur.shown = "n/a"
                                 /\ body.annualizedEur.shown = "n/a"
                  /\ body.monthlyOriginal.shown = "amount"
                  /\ body.monthlyOriginal.currency = code
                  /\ IsRounded(body.monthlyOriginal.cents, sub.amount,
                               sub.cadence_months)
                  /\ body.annualizedOriginal.shown = "amount"
                  /\ body.annualizedOriginal.currency = code
                  /\ IsRounded(body.annualizedOriginal.cents, 12 * sub.amount,
                               sub.cadence_months)

\* C23 witness: a subscription in "usd" with an infinite rate stored for USD
\* got "n/a" and its figures in USD.
C23_Witness ==
  /\ calc.fn = "body"
  /\ calc.step = 1
  /\ calc.subscription.currency = "usd"
  /\ \E row \in calc.rows : row.currency = "USD" /\ row.rate_to_eur.kind = "Infinity"
  /\ calc.body.monthlyEur.shown = "n/a"
  /\ calc.body.monthlyOriginal.currency = "USD"

\* C24: the monthly figure is amount / cadenceMonths and the annualized one
\* twelve times that, each times the rate in EUR, to the cent: 120 USD at a
\* cadence of 12 months and a rate of 0.92 give 10.00 USD and 9.20 EUR
\* monthly, 120.00 USD and 110.40 EUR annualized.
C24_MonthlyAndAnnualizedFigures ==
  (calc.fn = "body" /\ calc.step = 1)
    => LET sub == calc.subscription
           code == toUpperCase(sub.currency)
           rate == RateOf(calc.rows, code)
           body == calc.body
           d == sub.cadence_months
       IN  /\ (code = "EUR")
                => /\ IsRounded(body.monthlyEur.cents, sub.amount, d)
                   /\ IsRounded(body.annualizedEur.cents, 12 * sub.amount, d)
           /\ (code # "EUR" /\ rate > 0)
                => /\ IsRounded(body.monthlyOriginal.cents, sub.amount, d)
                   /\ IsRounded(body.annualizedOriginal.cents, 12 * sub.amount, d)
                   /\ IsRounded(body.monthlyEur.cents, sub.amount * rate, 100 * d)
                   /\ IsRounded(body.annualizedEur.cents, 12 * sub.amount * rate, 100 * d)
           /\ (code = "USD" /\ sub.amount = 12000 /\ sub.cadence_months = 12 /\ rate = 92)
                => /\ body.monthlyOriginal.cents = 1000
                   /\ body.monthlyEur.cents = 920
                   /\ body.annualizedOriginal.cents = 12000
                   /\ body.annualizedEur.cents = 11040

\* C24 witness: the body of the 120 USD yearly subscription at rate 0.92.
C24_Witness ==
  /\ calc.fn = "body"
  /\ calc.step = 1
  /\ calc.subscription = [currency |-> "USD", amount |-> 12000, cadence_months |-> 12]
  /\ RateOf(calc.rows, "USD") = 92
  /\ calc.body.monthlyEur = [shown |-> "amount", cents |-> 920]
  /\ calc.body.annualizedEur = [shown |-> "amount", cents |-> 11040]

\* Whether some instant shows the wall-clock time in the zone.
WallClockExists(wallClock, timeZone) ==
  \E o \in {timeZone.before, timeZone.after} :
    wallClockAsUtcMs(wallClock - o, timeZone) = wallClock

\* C25: the conversion makes at most 5 offset probes and has returned after
\* the fifth; a probe whose corrected estimate is within a second of the
\* estimate probed returns it, the fifth probe returns its corrected estimate
\* in any case; and for a wall-clock time that exists in the zone the instant
\* returned shows exactly that wall-clock time in the zone.
C25_ConversionTerminatesAndInverts ==
  [][calc.fn = "zoned"
       => LET corrected == calc.target - getTimeZoneOffsetMs(calc.guess, calc.timeZone)
              close == Abs(corrected - calc.guess) < ConvergedWithinMs
          IN  /\ calc'.attempt = calc.attempt + 1
              /\ calc'.attempt <= MaxAttempts
              /\ calc'.done <=> (close \/ calc'.attempt = MaxAttempts)
              /\ calc'.done => calc'.result = corrected
              /\ (calc'.done /\ WallClockExists(calc.target, calc.timeZone))
                   => wallClockAsUtcMs(calc'.result, calc.timeZone) = calc.target]_vars

\* C25 witness: 05:30 asked for on the day a zone eight hours behind UTC
\* moves its clocks forward; the third probe returned the instant 12:30 UTC.
C25_Witness ==
  /\ calc.fn = "zoned"
  /\ calc.done
  /\ calc.attempt = 3
  /\ calc.timeZone.before = (0 - 16) * MsPerHalfHour
  /\ calc.timeZone.after = (0 - 14) * MsPerHalfHour
  /\ calc.timeZone.at = (48 + 2 * 10) * MsPerHalfHour
  /\ calc.target = (48 + 11) * MsPerHalfHour
  /\ calc.result = (48 + 25) * MsPerHalfHour

\* C26: every result a sweep returns has candidatesChecked = sentCount +
\* skippedCount + failedCount, windowsChecked = 2, and as many warnings as
\* failed deliveries, plus one when the gateway target did not resolve.
C26_RunResultCountsAddUp ==
  \A p \in procs :
    lastRun[p].outcome = "returned"
      => /\ lastRun[p].candidatesChecked
              = lastRun[p].sentCount + lastRun[p].skippedCount + lastRun[p].failedCount
         /\ lastRun[p].windowsChecked = 2
         /\ lastRun[p].warnings
              = lastRun[p].failedCount + (IF lastRun[p].hasConfig THEN 0 ELSE 1)

\* C26 witness: the second sweep of a day returned with one candidate skipped
\* as ledgered, one failed again and one warning.
C26_Witness ==
  \E p \in procs : /\ lastRun[p].outcome = "returned"
                   /\ lastRun[p].prev = 1
                   /\ lastRun[p].hasConfig
                   /\ lastRun[p].candidatesChecked = 2
                   /\ lastRun[p].skippedCount = 1
                   /\ lastRun[p].failedCount = 1
                   /\ lastRun[p].warnings = 1

\* C27: the continuation of a POST the gateway accepted writes the ledger row
\* of its key and counts the candidate as sent, not as failed, before the
\* sweep goes on.
C27_AcceptedDeliveryIsLedgeredAndCounted ==
  [][\A p \in procs :
       (/\ ResumeAfterPost(p)
        /\ sweep[p].resp = "ok"
        /\ lastRun'[p].outcome # "threw")
         => /\ CurKey(p) \in ledger'
            /\ Counters(sweep', lastRun', p).sentCount = sweep[p].sentCount + 1
            /\ Counters(sweep', lastRun', p).failedCount = sweep[p].failedCount
            /\ Counters(sweep', lastRun', p).warnings = sweep[p].warnings]_vars

C29_SettledSweepClearsInFlight ==
  [][\A p \in procs :
       /\ sched'[p].inFlight <=> (sweep'[p].pc # "idle")
       /\ WaiterCount(awaiting'[p]) > 0 => sched'[p].inFlight
       /\ (sweep[p].pc # "idle" /\ sweep'[p].pc = "idle" /\ sched'[p].started)
            => /\ ~sched'[p].inFlight
               /\ lastRun'[p].outcome \in {"returned", "threw"}
               /\ lastRun'[p].waiters = awaiting[p]
               /\ awaiting'[p] = NoWaiters
       /\ ((ManualTrigger(p) \/ TimerFire(p)) /\ ~sched[p].inFlight)
            => LET callers == IF sched[p].started THEN 1 ELSE 2
               IN  \/ /\ sweep'[p].pc # "idle"
                      /\ running'[p] = 1
                      /\ lastRun'[p] = NoRun
                      /\ WaiterCount(awaiting'[p]) = callers
                   \/ /\ sweep'[p].pc = "idle"
                      /\ lastRun'[p].outcome \in {"returned", "threw"}
                      /\ lastRun'[p].outcome = "returned"
                           => lastRun'[p].today = getTodayIsoInReminderTimeZone(now)
                      /\ WaiterCount(lastRun'[p].waiters) = callers]_vars

\* C29 witness: after the startup sweep had settled, a manual trigger began a
\* sweep of its own; it threw, and the in-flight reference is cleared.
C29_Witness ==
  \E p \in procs : /\ sched[p].started
                   /\ lastRun[p].outcome = "threw"
                   /\ lastRun[p].waiters = [timer |-> 0, startup |-> 0, manual |-> 1]
                   /\ ~sched[p].inFlight
                   /\ awaiting[p] = NoWaiters

\* C30 as stated: a sweep posts at most one notification per subscription,
\* whatever is edited while it is suspended on a gateway call.
C30_OneNotificationPerSubscriptionPerSweep ==
  \A p \in procs :
    \A posted \in {sweep[p].posted, lastRun[p].posted} :
      \A i, j \in 1..Len(posted) : posted[i][1] = posted[j][1] => i = j

\* C30 amended: a sweep posts at most one notification per subscription and
\* window; over a store that is not changed while the sweep runs, every
\* subscription is a candidate in at most one window and is posted at most
\* once; two notifications of one sweep for one subscription are for window 1
\* and then window 2, with different charge dates, the subscription having
\* been re-dated in between.
C30_OneWindowUnlessRedated ==
  \A p \in procs :
    /\ \A posted \in {sweep[p].posted, lastRun[p].posted} :
         \A i, j \in 1..Len(posted) :
           (i < j /\ posted[i][1] = posted[j][1])
             => /\ posted[i][3] = 1
                /\ posted[j][3] = 2
                /\ posted[i][2] # posted[j][2]
                /\ ~Counters(sweep, lastRun, p).quiet
    /\ (lastRun[p].outcome = "returned" /\ lastRun[p].quiet)
         => lastRun[p].queried <= Cardinality({s \in Subs : subs[s].exists})

\* C30 witness: a sweep has posted for one subscription in window 1 and, the
\* charge date having been moved a day on during that gateway call, again in
\* window 2.
C30_Witness ==
  \E p \in procs : \E s \in Subs :
    /\ lastRun[p].outcome = "returned"
    /\ Len(lastRun[p].posted) >= 2
    /\ lastRun[p].posted[1] = << s, lastRun[p].today + 1, 1 >>
    /\ << s, lastRun[p].today + 2, 2 >> \in Range(lastRun[p].posted)
    /\ subs[s].date = lastRun[p].today + 2
====
